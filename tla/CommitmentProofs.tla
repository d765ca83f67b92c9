--------------------------- MODULE CommitmentProofs ---------------------------
(***************************************************************************)
(* Proofs about Publisher and Correctness, the two components that commit  *)
(* to an ordered collection: a package to the records of its inputs, a     *)
(* checkpoint root to its components.  Both sort, and share the lemmas     *)
(* about that; all files, chunks, publishers and destinations of the one   *)
(* and all inputs, policies and limits of the other are covered.           *)
(*                                                                         *)
(* Publisher: the records made so far are those of the paths taken so far  *)
(* (Recorded), what was hashed is a prefix of the file (HashedRight), and  *)
(* a writer that met no other has the temporary file to itself             *)
(* (WriterAlone).                                                          *)
(*                                                                         *)
(* Correctness: a level in work is one of the tower of levels over the     *)
(* leaves (Reaches), so a root is the top of such a tower (IsRootOf), and  *)
(* two towers with one top agree from the top down (LevelsAgree).  The     *)
(* requests answer the first slices of a plan, and what is left to sample  *)
(* is its rest (ChallengeInv).  What was compared and what is outstanding  *)
(* add up to what was requested (ComparisonInv).                           *)
(***************************************************************************)
EXTENDS Publisher, Correctness, FiniteSetTheorems, WellFoundedInduction, TLAPS

-----------------------------------------------------------------------------
(* Numbers and sorting                                                      *)

\* A set of natural numbers has a least element.
LEMMA LeastElement ==
    ASSUME NEW T, T \subseteq Nat, T # {}
    PROVE  \E x \in T : \A y \in T : x <= y
<1>1. PICK x \in T : \A y \in T : ~(<<y, x>> \in OpToRel(<, Nat))
  BY NatLessThanWellFounded, WFMin
<1>2. \A y \in T : ~(y < x)
  BY <1>1 DEF OpToRel
<1> QED  BY <1>2

\* In a strict total order of 1..N the number of predecessors tells the members
\* apart, grows with the order, and takes every value below N.
LEMMA RanksAreOneToOne ==
    ASSUME NEW N \in Nat, NEW R,
           \A k \in 1..N : <<k, k>> \notin R,
           \A k, m, n \in 1..N : <<k, m>> \in R /\ <<m, n>> \in R => <<k, n>> \in R,
           \A k, m \in 1..N : k # m => <<k, m>> \in R \/ <<m, k>> \in R
    PROVE  LET Rank(m) == Cardinality({k \in 1..N : <<k, m>> \in R}) + 1
           IN  /\ \A m \in 1..N : Rank(m) \in 1..N
               /\ \A k, m \in 1..N : <<k, m>> \in R => Rank(k) < Rank(m)
               /\ \A k, m \in 1..N : Rank(k) = Rank(m) => k = m
               /\ \A n \in 1..N : \E m \in 1..N : Rank(m) = n
<1> DEFINE Before(m) == {k \in 1..N : <<k, m>> \in R}
           Rank(m) == Cardinality(Before(m)) + 1
<1>1. IsFiniteSet(1..N) /\ Cardinality(1..N) = N
  BY FS_Interval
<1>2. ASSUME NEW m \in 1..N
      PROVE  IsFiniteSet(Before(m)) /\ Rank(m) \in 1..N
  <2>1. Before(m) \in SUBSET ((1..N) \ {m})
    OBVIOUS
  <2>2. IsFiniteSet((1..N) \ {m}) /\ Cardinality((1..N) \ {m}) = N - 1
    BY <1>1, FS_RemoveElement
  <2> HIDE DEF Before
  <2>3. IsFiniteSet(Before(m)) /\ Cardinality(Before(m)) <= N - 1
    BY <2>1, <2>2, FS_Subset
  <2>4. Cardinality(Before(m)) \in Nat
    BY <2>3, FS_CardinalityType
  <2> QED  BY <2>3, <2>4
<1>3. ASSUME NEW k \in 1..N, NEW m \in 1..N, <<k, m>> \in R
      PROVE  Rank(k) < Rank(m)
  <2>1. Before(k) \in SUBSET Before(m) /\ k \in Before(m) /\ k \notin Before(k)
    BY <1>3
  <2> HIDE DEF Before
  <2>2. IsFiniteSet(Before(m)) /\ IsFiniteSet(Before(k))
    BY <1>2
  <2>3. Cardinality(Before(k)) <= Cardinality(Before(m))
        /\ Cardinality(Before(k)) # Cardinality(Before(m))
    BY <2>1, <2>2, FS_Subset
  <2>4. Cardinality(Before(k)) \in Nat /\ Cardinality(Before(m)) \in Nat
    BY <2>2, FS_CardinalityType
  <2> QED  BY <2>3, <2>4
<1> HIDE DEF Before
<1>4. ASSUME NEW k \in 1..N, NEW m \in 1..N, Rank(k) = Rank(m)
      PROVE  k = m
  <2>1. Rank(k) \in Int /\ Rank(m) \in Int
    BY <1>2
  <2>2. <<k, m>> \in R => Rank(k) < Rank(m)
    BY <1>3
  <2>3. <<m, k>> \in R => Rank(m) < Rank(k)
    BY <1>3
  <2> HIDE DEF Rank
  <2>4. <<k, m>> \notin R /\ <<m, k>> \notin R
    BY <1>4, <2>1, <2>2, <2>3
  <2> QED  BY <2>4
<1>5. ASSUME NEW n \in 1..N
      PROVE  \E m \in 1..N : Rank(m) = n
  <2> HIDE DEF Rank
  <2> DEFINE f == [m \in 1..N |-> Rank(m)]
  <2>1. f \in Injection(1..N, 1..N)
    BY <1>2, <1>4 DEF Injection, IsInjective
  <2> HIDE DEF f
  <2>2. f \in Surjection(1..N, 1..N)
    BY <1>1, <2>1, FS_Injection
  <2>3. PICK m \in 1..N : f[m] = n
    BY <2>2 DEF Surjection
  <2> QED  BY <2>3 DEF f
<1> QED  BY <1>2, <1>3, <1>4, <1>5 DEF Before

\* Sorting a sequence whose elements are pairwise in order gives a sequence of
\* the same elements that ascends.
LEMMA SortedAscends ==
    ASSUME NEW X, NEW s \in Seq(X), NEW before,
           \A a \in X : <<a, a>> \notin before,
           \A a, b, c \in X : <<a, b>> \in before /\ <<b, c>> \in before => <<a, c>> \in before,
           \A k, m \in 1..Len(s) : k # m => <<s[k], s[m]>> \in before \/ <<s[m], s[k]>> \in before
    PROVE  /\ Sorted(s, before) \in Seq(X) /\ Len(Sorted(s, before)) = Len(s)
           /\ ToSet(Sorted(s, before)) = ToSet(s)
           /\ \A m, n \in 1..Len(s) :
                  m < n => <<Sorted(s, before)[m], Sorted(s, before)[n]>> \in before
<1> DEFINE N == Len(s)
           R == {pair \in (1..N) \X (1..N) : <<s[pair[1]], s[pair[2]]>> \in before}
           Precedes(k, m) == <<s[k], s[m]>> \in before
                                \/ (<<s[m], s[k]>> \notin before /\ k < m)
           Rank(m) == Cardinality({k \in DOMAIN s : Precedes(k, m)}) + 1
           At(n) == CHOOSE m \in DOMAIN s : Rank(m) = n
<1>1. N \in Nat /\ DOMAIN s = 1..N /\ \A k \in 1..N : s[k] \in X
  OBVIOUS
<1>2. \A k, m \in 1..N : <<k, m>> \in R <=> <<s[k], s[m]>> \in before
  OBVIOUS
<1> HIDE DEF N, R
<1>3. /\ \A k \in 1..N : <<k, k>> \notin R
      /\ \A k, m, n \in 1..N : <<k, m>> \in R /\ <<m, n>> \in R => <<k, n>> \in R
      /\ \A k, m \in 1..N : k # m => <<k, m>> \in R \/ <<m, k>> \in R
  BY <1>1, <1>2 DEF N
<1>4. Sorted(s, before) = [n \in DOMAIN s |-> s[At(n)]]
  BY DEF Sorted
<1>5. \A m \in 1..N : {k \in DOMAIN s : Precedes(k, m)} = {k \in 1..N : <<k, m>> \in R}
  BY <1>1, <1>2 DEF N
<1>6. /\ \A m \in 1..N : Rank(m) \in 1..N
      /\ \A k, m \in 1..N : <<k, m>> \in R => Rank(k) < Rank(m)
      /\ \A k, m \in 1..N : Rank(k) = Rank(m) => k = m
      /\ \A n \in 1..N : \E m \in 1..N : Rank(m) = n
  <2> DEFINE Number(m) == Cardinality({k \in 1..N : <<k, m>> \in R}) + 1
  <2>1. /\ \A m \in 1..N : Number(m) \in 1..N
        /\ \A k, m \in 1..N : <<k, m>> \in R => Number(k) < Number(m)
        /\ \A k, m \in 1..N : Number(k) = Number(m) => k = m
        /\ \A n \in 1..N : \E m \in 1..N : Number(m) = n
    BY <1>1, <1>3, RanksAreOneToOne
  <2>2. \A m \in 1..N : Rank(m) = Number(m)
    BY <1>5
  <2> HIDE DEF Rank, Number
  <2> QED  BY <2>1, <2>2
<1> HIDE DEF Rank
<1>7. \A n \in 1..N : At(n) \in 1..N /\ Rank(At(n)) = n
  BY <1>1, <1>6
<1>8. \A m \in 1..N : At(Rank(m)) = m
  BY <1>6, <1>7
<1> HIDE DEF At
<1>9. Sorted(s, before) \in Seq(X) /\ Len(Sorted(s, before)) = N
  <2>1. \A n \in 1..N : s[At(n)] \in X
    BY <1>1, <1>7
  <2>2. Sorted(s, before) = [n \in 1..N |-> s[At(n)]]
    BY <1>1, <1>4
  <2> QED  BY <1>1, <2>1, <2>2
<1>10. ToSet(Sorted(s, before)) = ToSet(s)
  <2>1. ToSet(s) = {s[m] : m \in 1..N}
    BY <1>1 DEF ToSet
  <2>2. ToSet(Sorted(s, before)) = {s[At(n)] : n \in 1..N}
    BY <1>1, <1>4 DEF ToSet
  <2>3. \A m \in 1..N : \E n \in 1..N : At(n) = m
    BY <1>6, <1>8
  <2>4. \A m \in 1..N : s[m] \in {s[At(n)] : n \in 1..N}
    BY <2>3
  <2>5. \A n \in 1..N : s[At(n)] \in {s[m] : m \in 1..N}
    BY <1>7
  <2> QED  BY <2>1, <2>2, <2>4, <2>5
<1>11. ASSUME NEW m \in 1..N, NEW n \in 1..N, m < n
       PROVE  <<Sorted(s, before)[m], Sorted(s, before)[n]>> \in before
  <2>1. At(m) \in 1..N /\ At(n) \in 1..N /\ Rank(At(m)) = m /\ Rank(At(n)) = n
    BY <1>7
  <2>2. <<At(n), At(m)>> \in R => n < m
    BY <1>6, <2>1
  <2>3. <<At(m), At(n)>> \in R
    BY <1>3, <1>11, <2>1, <2>2
  <2> QED  BY <1>1, <1>2, <1>4, <2>1, <2>3
<1> QED  BY <1>9, <1>10, <1>11 DEF N

-----------------------------------------------------------------------------
(* Publisher: the inductive invariant                                       *)

\* Where a publisher may be, and what a record of an input and a manifest are.
Places == {"idle", "check", "hash", "sign", "write", "replace", "done", "failed"}
InputRecords == [path : Paths, digest : Seq(Chunks), size : Nat]
Manifests == [entrypoint : Seq(Chunks), inputs : Seq(InputRecords)]

\* The variables of the files and of package_job have their types.
PackageTypeOK ==
    /\ files \in [Paths -> [type : {"file", "other"}, content : Seq(Chunks)]]
    /\ pc \in [Publishers -> Places]
    /\ request \in [Publishers -> Requests \cup {None}]
    /\ records \in [Publishers -> Seq(InputRecords)]
    /\ size \in [Publishers -> Nat]
    /\ hashed \in [Publishers -> Seq(Chunks)]
    /\ manifest \in [Publishers -> Manifests \cup {None}]
    /\ touched \in [Publishers -> SUBSET Paths]

\* The variables of write_manifest have their types.
WriteTypeOK ==
    /\ handle \in [Publishers -> Inodes \cup {None}]
    /\ blocks \in [Publishers -> Nat]
    /\ {temporary, destination} \subseteq Inodes \cup {None}
    /\ inodes \in [Inodes -> Seq(Publishers \cup {None})]
    /\ overlapped \in BOOLEAN

\* A publisher in work has a request, and a manifest only after signing.
InWork(p) ==
    /\ IsActive(p) => request[p] \in Requests
    /\ pc[p] \notin {"write", "replace"} => manifest[p] = None

\* As long as it did not change, the entrypoint is the file that was checked.
EntrypointChecked(p) ==
    pc[p] \in {"check", "hash", "sign"} /\ Entrypoint \notin touched[p] => IsRegular(Entrypoint)

\* r is right about its file unless that changed.
IsRight(r, p) ==
    r.path \notin touched[p] => r = Record(r.path, files[r.path].content, Bytes(r.path))

\* The records are those of the first inputs.
Recorded(p) ==
    /\ pc[p] = "idle" => records[p] = << >>
    /\ pc[p] \in {"check", "hash", "sign"} =>
          /\ Len(records[p]) <= Len(request[p].inputs)
          /\ \A n \in 1..Len(records[p]) :
                records[p][n].path = request[p].inputs[n] /\ IsRight(records[p][n], p)

\* a is how b begins.
IsPrefixOf(a, b) == Len(a) <= Len(b) /\ \A n \in 1..Len(a) : a[n] = b[n]

\* Of a file that did not change since it was checked, the hashed chunks are its
\* first ones and the size is its size.
HashedRight(p) ==
    Current(p) \notin touched[p] =>
       /\ IsRegular(Current(p))
       /\ IsPrefixOf(hashed[p], files[Current(p)].content)
       /\ ~AtEntrypoint(p) => size[p] = Bytes(Current(p))

Hashing(p) ==
    /\ pc[p] \in {"idle", "check"} => hashed[p] = << >>
    /\ pc[p] = "hash" =>
          /\ Current(p) \in Paths
          /\ AtEntrypoint(p) => IsPackageable(request[p])
          /\ HashedRight(p)
    /\ pc[p] = "sign" =>
          /\ AtEntrypoint(p) /\ IsPackageable(request[p])
          /\ Entrypoint \notin touched[p] => hashed[p] = files[Entrypoint].content

\* PackageIsFaithful, of one publisher.
IsFaithful(p) ==
    manifest[p] # None =>
        LET inputs == manifest[p].inputs IN
        /\ {r.path : r \in ToSet(inputs)} = ToSet(request[p].inputs)
        /\ \A m, n \in DOMAIN inputs : m < n => inputs[m].path < inputs[n].path
        /\ \A r \in ToSet(inputs) : IsRight(r, p)
        /\ Entrypoint \notin touched[p] => manifest[p].entrypoint = files[Entrypoint].content

\* What holds of one publisher.
PublisherInv(p) ==
    InWork(p) /\ EntrypointChecked(p) /\ Recorded(p) /\ Hashing(p) /\ IsFaithful(p)

PackageInv == PackageTypeOK /\ \A p \in Publishers : PublisherInv(p)

\* Unless publishers overlapped, at most one has the temporary file open; it has
\* written the blocks there are, and the destination is another file.
WriterAlone ==
    ~overlapped =>
       /\ \A p, q \in Publishers : Holds(p) /\ Holds(q) => p = q
       /\ \A p \in Publishers :
             Holds(p) => /\ handle[p] \in Inodes /\ temporary = handle[p]
                         /\ blocks[p] \in 0..Blocks
                         /\ inodes[handle[p]] = [n \in 1..blocks[p] |-> p]
       /\ destination # None => destination # temporary

WriteInv == WriteTypeOK /\ WriterAlone /\ DestinationIsWhole

-----------------------------------------------------------------------------
(* Publisher: the destination                                               *)

\* There are more inodes than publishers can have open beside the destination.
LEMMA FreshInodeExists ==
    ASSUME WriteTypeOK, temporary = None
    PROVE  FreshInode \in Inodes /\ FreshInode # destination
<1> DEFINE C == Cardinality(Publishers)
           H == {q \in Publishers : Holds(q)}
           open == {handle[p] : p \in H}
           f == [q \in H |-> handle[q]]
<1>1. IsFiniteSet(Publishers) /\ C \in Nat
  BY PublishersAssumption, FS_CardinalityType
<1>2. H \in SUBSET Publishers
  OBVIOUS
<1>3. IsFiniteSet(H) /\ Cardinality(H) <= C /\ Cardinality(H) \in Nat
  BY <1>1, <1>2, FS_Subset, FS_CardinalityType
<1>4. f \in Surjection(H, open)
  BY DEF Surjection
<1>5. IsFiniteSet(open) /\ Cardinality(open) <= C /\ Cardinality(open) \in Nat
  BY <1>1, <1>3, <1>4, FS_Surjection, FS_CardinalityType
<1> HIDE DEF open
<1>6. IsFiniteSet(open \cup {destination}) /\ Cardinality(open \cup {destination}) < C + 2
  <2>1. /\ IsFiniteSet(open \cup {destination})
        /\ Cardinality(open \cup {destination}) =
              IF destination \in open THEN Cardinality(open) ELSE Cardinality(open) + 1
    BY <1>5, FS_AddElement
  <2>2. CASE destination \in open
    BY <1>1, <1>5, <2>1, <2>2
  <2>3. CASE destination \notin open
    BY <1>1, <1>5, <2>1, <2>3
  <2> QED  BY <2>2, <2>3
<1>7. Cardinality(Inodes) = C + 2 /\ Inodes \subseteq Nat
  BY <1>1, FS_Interval DEF Inodes
<1>8. ~(Inodes \subseteq open \cup {destination})
  <2> SUFFICES ASSUME Inodes \in SUBSET (open \cup {destination}) PROVE FALSE
    OBVIOUS
  <2>1. Cardinality(Inodes) <= Cardinality(open \cup {destination})
    BY <1>6, FS_Subset
  <2>2. Cardinality(open \cup {destination}) \in Nat
    BY <1>6, FS_CardinalityType
  <2> QED  BY <1>1, <1>6, <1>7, <2>1, <2>2
<1>9. PICK i \in Inodes : i \notin open \cup {destination}
  BY <1>8
<1>10. i # temporary
  BY <1>7, PublishersAssumption
<1>11. i \notin {temporary, destination} \cup open
  BY <1>9, <1>10
<1>12. FreshInode \in Inodes /\ FreshInode \notin {temporary, destination} \cup open
  BY <1>11 DEF FreshInode, open
<1> QED  BY <1>12

\* A step that neither opens, writes nor replaces leaves the disk as it was.
LEMMA WriteKept ==
    ASSUME WriteInv, UNCHANGED writing,
           \A q \in Publishers : pc'[q] = "replace" => pc[q] = "replace"
    PROVE  WriteInv'
<1>1. UNCHANGED <<handle, blocks, temporary, destination, inodes, overlapped>>
  BY DEF writing, disk
<1> QED  BY <1>1 DEF WriteInv, WriteTypeOK, WriterAlone, DestinationIsWhole, Holds

\* A publisher that ends takes no other place.
LEMMA EndsPlace ==
    ASSUME PackageTypeOK, NEW p \in Publishers, NEW place, Ends(p, place)
    PROVE  \A q \in Publishers : pc'[q] = IF q = p THEN place ELSE pc[q]
  BY DEF Ends, Goto, PackageTypeOK

\* A new temporary file is the writer's own, and leaves the destination whole.
LEMMA OpenStep ==
    ASSUME PackageTypeOK, WriteInv, NEW p \in Publishers, OpenTemporary(p)
    PROVE  WriteInv'
<1>1. OpenedInode \in Inodes /\ (destination # None => OpenedInode # destination \/ overlapped)
  <2>1. CASE temporary = None
    BY <2>1, FreshInodeExists DEF OpenedInode, WriteInv
  <2>2. CASE temporary # None
    BY <2>2 DEF OpenedInode, WriteInv, WriterAlone, WriteTypeOK
  <2> QED  BY <2>1, <2>2
<1>2. /\ temporary' = OpenedInode
      /\ handle' = [handle EXCEPT ![p] = OpenedInode]
      /\ blocks' = [blocks EXCEPT ![p] = 0]
      /\ inodes' = [inodes EXCEPT ![OpenedInode] = <<>>]
      /\ overlapped' = (overlapped \/ \E q \in Publishers \ {p} : Holds(q))
      /\ pc' = [pc EXCEPT ![p] = "replace"]
      /\ destination' = destination
  BY DEF OpenTemporary, Goto
<1> DEFINE i == OpenedInode
<1> HIDE DEF i
<1>3. WriteTypeOK'
  <2>1. <<>> \in Seq(Publishers \cup {None})
    OBVIOUS
  <2>2. inodes' \in [Inodes -> Seq(Publishers \cup {None})]
    BY <1>2, <2>1 DEF WriteInv, WriteTypeOK
  <2>3. overlapped' \in BOOLEAN
    BY <1>2
  <2>4. handle' \in [Publishers -> Inodes \cup {None}] /\ blocks' \in [Publishers -> Nat]
    BY <1>1, <1>2 DEF WriteInv, WriteTypeOK
  <2>5. {temporary', destination'} \subseteq Inodes \cup {None}
    BY <1>1, <1>2 DEF WriteInv, WriteTypeOK
  <2>6. Inodes' = Inodes
    BY DEF Inodes
  <2> QED  BY <2>2, <2>3, <2>4, <2>5, <2>6 DEF WriteTypeOK
<1>4. ASSUME ~overlapped'
      PROVE  /\ ~overlapped
             /\ \A q \in Publishers : pc'[q] = "replace" => q = p
             /\ inodes'[OpenedInode] = <<>>
             /\ handle'[p] = OpenedInode /\ blocks'[p] = 0
             /\ destination # None => /\ OpenedInode # destination
                                      /\ inodes'[destination] = inodes[destination]
  <2>1. ~overlapped /\ \A q \in Publishers \ {p} : ~Holds(q)
    BY <1>2, <1>4
  <2>2. \A q \in Publishers : pc'[q] = "replace" => q = p
    BY <1>2, <2>1 DEF Holds, PackageTypeOK
  <2>3. inodes'[OpenedInode] = <<>> /\ handle'[p] = OpenedInode /\ blocks'[p] = 0
    BY <1>1, <1>2 DEF WriteInv, WriteTypeOK
  <2>4. destination # None => /\ OpenedInode # destination
                              /\ inodes'[destination] = inodes[destination]
    BY <1>1, <1>2, <2>1 DEF WriteInv, WriteTypeOK
  <2> QED  BY <2>1, <2>2, <2>3, <2>4
<1>5. <<>> = [n \in 1..0 |-> p]
  OBVIOUS
<1>6. WriterAlone'
  <2> SUFFICES ASSUME ~overlapped'
               PROVE  /\ \A q, r \in Publishers : pc'[q] = "replace" /\ pc'[r] = "replace" => q = r
                      /\ \A q \in Publishers :
                            pc'[q] = "replace" =>
                               /\ handle'[q] \in Inodes /\ temporary' = handle'[q]
                               /\ blocks'[q] \in 0..Blocks
                               /\ inodes'[handle'[q]] = [n \in 1..blocks'[q] |-> q]
                      /\ destination' # None => destination' # temporary'
    BY DEF WriterAlone, Holds, Inodes
  <2>1. 0 \in 0..Blocks
    BY FilesAssumption
  <2>2. inodes'[OpenedInode] = [n \in 1..0 |-> p]
    BY <1>4, <1>5
  <2>3. handle'[p] \in Inodes /\ temporary' = handle'[p] /\ blocks'[p] \in 0..Blocks
        /\ inodes'[handle'[p]] = [n \in 1..blocks'[p] |-> p]
    BY <1>1, <1>2, <1>4, <2>1, <2>2
  <2> QED  BY <1>2, <1>4, <2>3
<1>7. DestinationIsWhole'
  BY <1>2, <1>4 DEF DestinationIsWhole, WriteInv
<1> QED  BY <1>3, <1>6, <1>7 DEF WriteInv

\* A write at the end of a file appends.
LEMMA WrittenAtEnd ==
    ASSUME NEW p, NEW k \in Nat
    PROVE  Written([n \in 1..k |-> p], k + 1, p) = [n \in 1..(k + 1) |-> p]
<1> DEFINE old == [n \in 1..k |-> p]
<1>1. Len(old) = k /\ \A n \in 1..k : old[n] = p
  OBVIOUS
<1> HIDE DEF old
<1>2. Written(old, k + 1, p) = [n \in 1..(k + 1) |-> IF n = k + 1 THEN p ELSE IF n <= k THEN old[n] ELSE None]
  BY <1>1 DEF Written
<1>3. \A n \in 1..(k + 1) : (IF n = k + 1 THEN p ELSE IF n <= k THEN old[n] ELSE None) = p
  BY <1>1
<1> QED  BY <1>2, <1>3 DEF old

\* Writing a part goes to the writer's temporary file and not to the destination.
LEMMA WriteStep ==
    ASSUME PackageTypeOK, WriteInv, NEW p \in Publishers, WriteBlock(p)
    PROVE  WriteInv'
<1>1. /\ pc[p] = "replace" /\ blocks[p] < Blocks
      /\ inodes' = [inodes EXCEPT ![handle[p]] = Written(@, blocks[p] + 1, p)]
      /\ blocks' = [blocks EXCEPT ![p] = @ + 1]
      /\ UNCHANGED <<pc, handle, temporary, destination, overlapped>>
  BY DEF WriteBlock, packaging
<1>2. WriteTypeOK'
  <2>1. ASSUME handle[p] \in Inodes
        PROVE  Written(inodes[handle[p]], blocks[p] + 1, p) \in Seq(Publishers \cup {None})
    <3> DEFINE old == inodes[handle[p]]
               at == blocks[p] + 1
    <3>1. old \in Seq(Publishers \cup {None}) /\ at \in Nat \ {0}
      BY <2>1 DEF WriteInv, WriteTypeOK
    <3> HIDE DEF old, at
    <3>2. (IF at > Len(old) THEN at ELSE Len(old)) \in Nat
      BY <3>1
    <3>3. \A n \in 1..(IF at > Len(old) THEN at ELSE Len(old)) :
             (IF n = at THEN p ELSE IF n <= Len(old) THEN old[n] ELSE None) \in Publishers \cup {None}
      BY <3>1
    <3>4. Written(old, at, p) \in Seq(Publishers \cup {None})
      BY <3>2, <3>3 DEF Written
    <3> QED  BY <3>4 DEF old, at
  <2>2. inodes' \in [Inodes -> Seq(Publishers \cup {None})]
    BY <1>1, <2>1 DEF WriteInv, WriteTypeOK
  <2>3. blocks' \in [Publishers -> Nat]
    BY <1>1 DEF WriteInv, WriteTypeOK
  <2> QED  BY <1>1, <2>2, <2>3 DEF WriteInv, WriteTypeOK, Inodes
<1>3. ASSUME ~overlapped
      PROVE  /\ handle[p] \in Inodes /\ temporary = handle[p] /\ blocks'[p] = blocks[p] + 1
             /\ blocks'[p] \in 0..Blocks
             /\ inodes'[handle[p]] = [n \in 1..blocks'[p] |-> p]
             /\ \A q \in Publishers : pc[q] = "replace" => q = p
             /\ destination # None => /\ destination # temporary
                                      /\ inodes'[destination] = inodes[destination]
  <2>1. /\ handle[p] \in Inodes /\ temporary = handle[p]
        /\ blocks[p] \in 0..Blocks
        /\ inodes[handle[p]] = [n \in 1..blocks[p] |-> p]
        /\ \A q \in Publishers : pc[q] = "replace" => q = p
        /\ destination # None => destination # temporary
    BY <1>1, <1>3 DEF WriteInv, WriterAlone, Holds
  <2>2. blocks'[p] = blocks[p] + 1 /\ blocks'[p] \in 0..Blocks /\ blocks[p] \in Nat
    BY <1>1, <2>1, FilesAssumption DEF WriteInv, WriteTypeOK
  <2>3. Written(inodes[handle[p]], blocks[p] + 1, p) = [n \in 1..(blocks[p] + 1) |-> p]
    BY <2>1, <2>2, WrittenAtEnd
  <2>4. inodes'[handle[p]] = [n \in 1..(blocks[p] + 1) |-> p]
    BY <1>1, <2>1, <2>3 DEF WriteInv, WriteTypeOK
  <2>5. destination # None => inodes'[destination] = inodes[destination]
    BY <1>1, <2>1 DEF WriteInv, WriteTypeOK
  <2> QED  BY <2>1, <2>2, <2>4, <2>5
<1>4. WriterAlone'
  BY <1>1, <1>3 DEF WriterAlone, Holds, Inodes
<1>5. DestinationIsWhole'
  BY <1>1, <1>3 DEF DestinationIsWhole, WriteInv
<1> QED  BY <1>2, <1>4, <1>5 DEF WriteInv

\* os.replace puts a file that was written to its end in the destination's place.
LEMMA ReplaceStep ==
    ASSUME PackageTypeOK, WriteInv, NEW p \in Publishers, Replace(p)
    PROVE  WriteInv'
<1>1. /\ pc[p] = "replace" /\ blocks[p] = Blocks
      /\ temporary # None
      /\ destination' = temporary /\ temporary' = None
      /\ UNCHANGED <<handle, blocks, inodes, overlapped>>
  BY DEF Replace
<1>2. \A q \in Publishers : pc'[q] = "replace" => pc[q] = "replace" /\ q # p
  BY EndsPlace DEF Replace
<1>3. WriteTypeOK'
  BY <1>1 DEF WriteInv, WriteTypeOK, Inodes
<1>4. ASSUME ~overlapped
      PROVE  /\ temporary = handle[p]
             /\ inodes[temporary] = [n \in 1..Blocks |-> p]
             /\ \A q \in Publishers : pc[q] = "replace" => q = p
  BY <1>1, <1>4 DEF WriteInv, WriterAlone, Holds
<1>5. WriterAlone'
  BY <1>1, <1>2, <1>4 DEF WriterAlone, Holds
<1>6. DestinationIsWhole'
  BY <1>1, <1>4 DEF DestinationIsWhole
<1> QED  BY <1>3, <1>5, <1>6 DEF WriteInv

-----------------------------------------------------------------------------
(* Publisher: the package                                                   *)

\* What a publisher knows depends on its own variables and the files only.
LEMMA OtherKept ==
    ASSUME NEW q \in Publishers, PublisherInv(q), UNCHANGED <<files, touched>>,
           pc'[q] = pc[q], request'[q] = request[q], records'[q] = records[q],
           size'[q] = size[q], hashed'[q] = hashed[q], manifest'[q] = manifest[q]
    PROVE  PublisherInv(q)'
<1>1. InWork(q)'
  BY DEF PublisherInv, InWork, IsActive
<1>2. EntrypointChecked(q)'
  BY DEF PublisherInv, EntrypointChecked, IsRegular
<1>3. Recorded(q)'
  BY DEF PublisherInv, Recorded, IsRight, Bytes
<1>4. Hashing(q)'
  BY DEF PublisherInv, Hashing, HashedRight, Current, AtEntrypoint, Position, IsRegular, Bytes
<1>5. IsFaithful(q)'
  BY DEF PublisherInv, IsFaithful, IsRight, Bytes
<1> QED  BY <1>1, <1>2, <1>3, <1>4, <1>5 DEF PublisherInv

\* A publisher that ends knows nothing any more.
LEMMA EndsStep ==
    ASSUME PackageInv, NEW p \in Publishers, NEW place \in {"done", "failed"}, Ends(p, place),
           UNCHANGED surroundings
    PROVE  PackageInv'
<1>1. UNCHANGED <<files, touched>>
  BY DEF surroundings
<1>2. << >> \in Seq(InputRecords) /\ << >> \in Seq(Chunks) /\ 0 \in Nat /\ place \in Places
  BY DEF Places
<1>3. PackageTypeOK'
  <2>1. pc' \in [Publishers -> Places]
    BY <1>2 DEF Ends, Goto, PackageInv, PackageTypeOK
  <2>2. request' \in [Publishers -> Requests \cup {None}]
        /\ manifest' \in [Publishers -> Manifests \cup {None}]
    BY DEF Ends, PackageInv, PackageTypeOK
  <2>3. records' \in [Publishers -> Seq(InputRecords)]
    BY <1>2 DEF Ends, PackageInv, PackageTypeOK
  <2>4. size' \in [Publishers -> Nat] /\ hashed' \in [Publishers -> Seq(Chunks)]
    BY <1>2 DEF Ends, PackageInv, PackageTypeOK
  <2> QED  BY <1>1, <2>1, <2>2, <2>3, <2>4 DEF PackageInv, PackageTypeOK
<1>4. ASSUME NEW q \in Publishers PROVE PublisherInv(q)'
  <2>1. CASE q = p
    <3>1. pc'[p] = place /\ manifest'[p] = None
      BY DEF Ends, Goto, PackageInv, PackageTypeOK
    <3> QED  BY <2>1, <3>1 DEF PublisherInv, InWork, IsActive, EntrypointChecked, Recorded,
                               Hashing, IsFaithful
  <2>2. CASE q # p
    <3>1. pc'[q] = pc[q] /\ request'[q] = request[q] /\ records'[q] = records[q]
          /\ size'[q] = size[q] /\ hashed'[q] = hashed[q] /\ manifest'[q] = manifest[q]
      BY <2>2 DEF Ends, Goto, PackageInv, PackageTypeOK
    <3> QED  BY <1>1, <3>1, OtherKept DEF PackageInv
  <2> QED  BY <2>1, <2>2
<1> QED  BY <1>3, <1>4 DEF PackageInv

\* package_job is called: the entrypoint was checked, nothing is recorded.
LEMMA BeginStep ==
    ASSUME PackageInv, NEW p \in Publishers, NEW r \in Requests, Begin(p, r), IsAdmitted(r)
    PROVE  PackageInv'
<1>1. /\ pc[p] = "idle" /\ request' = [request EXCEPT ![p] = r]
      /\ pc' = [pc EXCEPT ![p] = "check"]
      /\ UNCHANGED <<records, size, hashed, manifest, files, touched>>
  BY DEF Begin, Goto, surroundings
<1>2. PackageTypeOK'
  BY <1>1 DEF PackageInv, PackageTypeOK, Places
<1>3. PublisherInv(p)'
  <2>1. pc'[p] = "check" /\ request'[p] = r
    BY <1>1 DEF PackageInv, PackageTypeOK
  <2>2. records[p] = << >> /\ hashed[p] = << >> /\ manifest[p] = None
    BY <1>1 DEF PackageInv, PublisherInv, Recorded, Hashing, InWork
  <2>3. IsRegular(Entrypoint) /\ Len(r.inputs) >= 0
    BY FilesAssumption DEF IsAdmitted
  <2>4. InWork(p)' /\ EntrypointChecked(p)'
    BY <1>1, <2>1, <2>2, <2>3 DEF InWork, IsActive, EntrypointChecked, IsRegular
  <2>5. Recorded(p)'
    BY <1>1, <2>1, <2>2, <2>3 DEF Recorded
  <2>6. Hashing(p)' /\ IsFaithful(p)'
    BY <1>1, <2>1, <2>2 DEF Hashing, IsFaithful
  <2> QED  BY <2>4, <2>5, <2>6 DEF PublisherInv
<1>4. ASSUME NEW q \in Publishers, q # p PROVE PublisherInv(q)'
  <2>1. pc'[q] = pc[q] /\ request'[q] = request[q]
    BY <1>1, <1>4 DEF PackageInv, PackageTypeOK
  <2> QED  BY <1>1, <2>1, OtherKept DEF PackageInv
<1> QED  BY <1>2, <1>3, <1>4 DEF PackageInv

\* What a publisher in package_job works on.
LEMMA CurrentType ==
    ASSUME PackageInv, NEW p \in Publishers, pc[p] \in {"check", "hash", "sign"}
    PROVE  /\ request[p] \in Requests /\ request[p].inputs \in Seq(Paths \cup {None})
           /\ records[p] \in Seq(InputRecords)
           /\ Position(p) = Len(records[p]) + 1
           /\ ~AtEntrypoint(p) => /\ Position(p) \in 1..Len(request[p].inputs)
                                  /\ Current(p) = request[p].inputs[Position(p)]
                                  /\ Current(p) \in Paths \cup {None}
           /\ AtEntrypoint(p) => /\ Current(p) = Entrypoint /\ Entrypoint \in Paths
                                 /\ Len(records[p]) = Len(request[p].inputs)
<1>1. request[p] \in Requests
  BY DEF PackageInv, PublisherInv, InWork, IsActive
<1>2. request[p].inputs \in Seq(Paths \cup {None})
  BY <1>1, RequestsAssumption DEF IsRequest
<1>3. records[p] \in Seq(InputRecords) /\ Len(records[p]) <= Len(request[p].inputs)
  BY DEF PackageInv, PackageTypeOK, PublisherInv, Recorded
<1>4. Position(p) = Len(records[p]) + 1
  BY DEF Position
<1>5. ~AtEntrypoint(p) => /\ Position(p) \in 1..Len(request[p].inputs)
                          /\ Current(p) = request[p].inputs[Position(p)]
                          /\ Current(p) \in Paths \cup {None}
  BY <1>2, <1>3, <1>4 DEF AtEntrypoint, Current
<1>6. AtEntrypoint(p) => /\ Current(p) = Entrypoint /\ Entrypoint \in Paths
                         /\ Len(records[p]) = Len(request[p].inputs)
  BY <1>2, <1>3, <1>4, FilesAssumption DEF AtEntrypoint, Current
<1> QED  BY <1>1, <1>2, <1>3, <1>4, <1>5, <1>6

\* Nothing is hashed before the first chunk.
LEMMA NothingHashed ==
    ASSUME NEW path \in Paths, PackageTypeOK
    PROVE  IsPrefixOf(<< >>, files[path].content)
<1>1. files[path].content \in Seq(Chunks)
  BY DEF PackageTypeOK
<1> QED  BY <1>1 DEF IsPrefixOf

\* An input that was checked is hashed from its first chunk.
LEMMA CheckInputStep ==
    ASSUME PackageInv, NEW p \in Publishers, CheckInput(p)
    PROVE  PackageInv'
<1>1. /\ pc[p] = "check" /\ ~AtEntrypoint(p) /\ Checked(p)
      /\ size' = [size EXCEPT ![p] = Bytes(Current(p))]
      /\ pc' = [pc EXCEPT ![p] = "hash"]
      /\ UNCHANGED <<request, records, hashed, manifest, files, touched>>
  BY DEF CheckInput, Goto, surroundings
<1>2. Current(p) \in Paths /\ IsRegular(Current(p))
  BY <1>1, CurrentType DEF Checked
<1>3. files[Current(p)].content \in Seq(Chunks) /\ Bytes(Current(p)) \in Nat
  BY <1>2 DEF PackageInv, PackageTypeOK, Bytes
<1>4. PackageTypeOK'
  BY <1>1, <1>3 DEF PackageInv, PackageTypeOK, Places
<1>5. PublisherInv(p)'
  <2>1. pc'[p] = "hash" /\ size'[p] = Bytes(Current(p))
    BY <1>1 DEF PackageInv, PackageTypeOK
  <2>2. hashed[p] = << >> /\ manifest[p] = None /\ request[p] \in Requests
    BY <1>1 DEF PackageInv, PublisherInv, Hashing, InWork, IsActive
  <2>3. Current(p)' = Current(p) /\ AtEntrypoint(p)' = AtEntrypoint(p)
    BY <1>1 DEF Current, AtEntrypoint, Position
  <2>4. InWork(p)' /\ IsFaithful(p)'
    BY <1>1, <2>1, <2>2 DEF InWork, IsActive, IsFaithful
  <2>5. EntrypointChecked(p)'
    BY <1>1 DEF PackageInv, PublisherInv, EntrypointChecked, IsRegular
  <2>6. Recorded(p)'
    BY <1>1, <2>1 DEF PackageInv, PublisherInv, Recorded, IsRight, Bytes
  <2>7. IsPrefixOf(hashed[p], files[Current(p)].content)
    BY <1>2, <2>2, NothingHashed DEF PackageInv
  <2>8. HashedRight(p)'
    BY <1>1, <1>2, <2>1, <2>3, <2>7 DEF HashedRight, IsRegular, Bytes
  <2>9. Hashing(p)'
    BY <1>1, <1>2, <2>1, <2>3, <2>8 DEF Hashing
  <2> QED  BY <2>4, <2>5, <2>6, <2>9 DEF PublisherInv
<1>6. ASSUME NEW q \in Publishers, q # p PROVE PublisherInv(q)'
  <2>1. pc'[q] = pc[q] /\ size'[q] = size[q]
    BY <1>1, <1>6 DEF PackageInv, PackageTypeOK
  <2> QED  BY <1>1, <2>1, OtherKept DEF PackageInv
<1> QED  BY <1>4, <1>5, <1>6 DEF PackageInv

\* After the inputs the entrypoint is hashed.
LEMMA InputsDoneStep ==
    ASSUME PackageInv, NEW p \in Publishers, InputsDone(p)
    PROVE  PackageInv'
<1>1. /\ pc[p] = "check" /\ AtEntrypoint(p) /\ IsPackageable(request[p])
      /\ pc' = [pc EXCEPT ![p] = "hash"]
      /\ UNCHANGED <<request, records, size, hashed, manifest, files, touched>>
  BY DEF InputsDone, Goto, surroundings
<1>2. Current(p) = Entrypoint /\ Entrypoint \in Paths
  BY <1>1, CurrentType
<1>3. PackageTypeOK'
  BY <1>1 DEF PackageInv, PackageTypeOK, Places
<1>4. PublisherInv(p)'
  <2>1. pc'[p] = "hash"
    BY <1>1 DEF PackageInv, PackageTypeOK
  <2>2. hashed[p] = << >> /\ manifest[p] = None /\ request[p] \in Requests
    BY <1>1 DEF PackageInv, PublisherInv, Hashing, InWork, IsActive
  <2>3. Current(p)' = Current(p) /\ AtEntrypoint(p)' = AtEntrypoint(p)
    BY <1>1 DEF Current, AtEntrypoint, Position
  <2>4. InWork(p)' /\ IsFaithful(p)'
    BY <1>1, <2>1, <2>2 DEF InWork, IsActive, IsFaithful
  <2>5. EntrypointChecked(p)' /\ (Entrypoint \notin touched[p] => IsRegular(Entrypoint))
    BY <1>1 DEF PackageInv, PublisherInv, EntrypointChecked, IsRegular
  <2>6. Recorded(p)'
    BY <1>1, <2>1 DEF PackageInv, PublisherInv, Recorded, IsRight, Bytes
  <2>7. IsPrefixOf(hashed[p], files[Current(p)].content)
    BY <1>2, <2>2, NothingHashed DEF PackageInv
  <2>8. HashedRight(p)'
    BY <1>1, <1>2, <2>1, <2>3, <2>5, <2>7 DEF HashedRight, IsRegular
  <2>9. Hashing(p)'
    BY <1>1, <1>2, <2>1, <2>3, <2>8 DEF Hashing
  <2> QED  BY <2>4, <2>5, <2>6, <2>9 DEF PublisherInv
<1>5. ASSUME NEW q \in Publishers, q # p PROVE PublisherInv(q)'
  <2>1. pc'[q] = pc[q]
    BY <1>1, <1>5 DEF PackageInv, PackageTypeOK
  <2> QED  BY <1>1, <2>1, OtherKept DEF PackageInv
<1> QED  BY <1>3, <1>4, <1>5 DEF PackageInv

\* A read delivers chunks, and those of the file as long as that is regular.
LEMMA ReadableType ==
    ASSUME PackageTypeOK, NEW path \in Paths, NEW content \in Readable(path)
    PROVE  /\ content \in Seq(Chunks)
           /\ IsRegular(path) => content = files[path].content
<1>1. files[path].content \in Seq(Chunks)
  BY DEF PackageTypeOK
<1> QED  BY <1>1, FilesAssumption DEF Readable

\* One more chunk of the file is hashed.
LEMMA HashChunkStep ==
    ASSUME PackageInv, NEW p \in Publishers, HashChunk(p)
    PROVE  PackageInv'
<1>1. /\ pc[p] = "hash"
      /\ UNCHANGED <<pc, request, records, size, manifest, files, touched>>
  BY DEF HashChunk, surroundings
<1>2. Current(p) \in Paths
  BY <1>1 DEF PackageInv, PublisherInv, Hashing
<1>3. PICK content \in Readable(Current(p)) :
         /\ Len(hashed[p]) < Len(content)
         /\ hashed' = [hashed EXCEPT ![p] = Append(hashed[p], content[Len(hashed[p]) + 1])]
  BY DEF HashChunk, HasMore
<1>4. content \in Seq(Chunks) /\ (IsRegular(Current(p)) => content = files[Current(p)].content)
  BY <1>2, ReadableType DEF PackageInv
<1>5. hashed[p] \in Seq(Chunks)
  BY DEF PackageInv, PackageTypeOK
<1>6. hashed'[p] = Append(hashed[p], content[Len(hashed[p]) + 1])
  BY <1>3 DEF PackageInv, PackageTypeOK
<1>7. /\ hashed'[p] \in Seq(Chunks) /\ Len(hashed'[p]) = Len(hashed[p]) + 1
      /\ Len(hashed'[p]) <= Len(content)
      /\ \A n \in 1..Len(hashed[p]) : hashed'[p][n] = hashed[p][n]
      /\ hashed'[p][Len(hashed[p]) + 1] = content[Len(hashed[p]) + 1]
  BY <1>3, <1>4, <1>5, <1>6
<1>8. hashed' \in [Publishers -> Seq(Chunks)]
  BY <1>3, <1>6, <1>7 DEF PackageInv, PackageTypeOK
<1>9. PackageTypeOK'
  BY <1>1, <1>8 DEF PackageInv, PackageTypeOK
<1>10. IsPrefixOf(hashed[p], content) => IsPrefixOf(hashed'[p], content)
  BY <1>4, <1>5, <1>7 DEF IsPrefixOf
<1>11. PublisherInv(p)'
  <2>1. Current(p)' = Current(p) /\ AtEntrypoint(p)' = AtEntrypoint(p)
    BY <1>1 DEF Current, AtEntrypoint, Position
  <2>2. InWork(p)' /\ IsFaithful(p)'
    BY <1>1 DEF PackageInv, PublisherInv, InWork, IsActive, IsFaithful
  <2>3. EntrypointChecked(p)'
    BY <1>1 DEF PackageInv, PublisherInv, EntrypointChecked, IsRegular
  <2>4. Recorded(p)'
    BY <1>1 DEF PackageInv, PublisherInv, Recorded, IsRight, Bytes
  <2>5. HashedRight(p)
    BY <1>1 DEF PackageInv, PublisherInv, Hashing
  <2>6. HashedRight(p)'
    BY <1>1, <1>4, <1>10, <2>1, <2>5 DEF HashedRight, IsRegular, Bytes
  <2>7. Hashing(p)'
    BY <1>1, <2>1, <2>6 DEF PackageInv, PublisherInv, Hashing
  <2> QED  BY <2>2, <2>3, <2>4, <2>7 DEF PublisherInv
<1>12. ASSUME NEW q \in Publishers, q # p PROVE PublisherInv(q)'
  <2>1. hashed'[q] = hashed[q]
    BY <1>3, <1>12 DEF PackageInv, PackageTypeOK
  <2> QED  BY <1>1, <2>1, OtherKept DEF PackageInv
<1> QED  BY <1>9, <1>11, <1>12 DEF PackageInv

\* A prefix that is not shorter is the whole.
LEMMA WholePrefix ==
    ASSUME NEW a \in Seq(Chunks), NEW b \in Seq(Chunks), IsPrefixOf(a, b), ~(Len(a) < Len(b))
    PROVE  a = b
<1>1. Len(a) = Len(b)
  BY DEF IsPrefixOf
<1> QED  BY <1>1 DEF IsPrefixOf

\* At the end of a file that did not change its content has been hashed.
LEMMA HashedWhole ==
    ASSUME PackageInv, NEW p \in Publishers, HashDone(p), Current(p) \notin touched[p]
    PROVE  hashed[p] = files[Current(p)].content
<1>1. pc[p] = "hash"
  BY DEF HashDone
<1>2. Current(p) \in Paths /\ IsRegular(Current(p))
      /\ IsPrefixOf(hashed[p], files[Current(p)].content)
  BY <1>1 DEF PackageInv, PublisherInv, Hashing, HashedRight
<1>3. PICK content \in Readable(Current(p)) : ~(Len(hashed[p]) < Len(content))
  BY DEF HashDone, HasMore
<1>4. content \in Seq(Chunks) /\ content = files[Current(p)].content
  BY <1>2, ReadableType DEF PackageInv
<1>5. hashed[p] \in Seq(Chunks)
  BY DEF PackageInv, PackageTypeOK
<1> QED  BY <1>2, <1>3, <1>4, <1>5, WholePrefix

\* The entrypoint has been hashed.
LEMMA EntrypointHashedStep ==
    ASSUME PackageInv, NEW p \in Publishers, HashDone(p), AtEntrypoint(p)
    PROVE  PackageInv'
<1>1. /\ pc[p] = "hash"
      /\ pc' = [pc EXCEPT ![p] = "sign"]
      /\ UNCHANGED <<request, records, size, hashed, manifest, files, touched>>
  BY DEF HashDone, Goto, surroundings
<1>2. Current(p) = Entrypoint /\ IsPackageable(request[p])
  BY <1>1, CurrentType DEF PackageInv, PublisherInv, Hashing
<1>3. PackageTypeOK'
  BY <1>1 DEF PackageInv, PackageTypeOK, Places
<1>4. PublisherInv(p)'
  <2>1. pc'[p] = "sign"
    BY <1>1 DEF PackageInv, PackageTypeOK
  <2>2. manifest[p] = None /\ request[p] \in Requests
    BY <1>1 DEF PackageInv, PublisherInv, InWork, IsActive
  <2>3. AtEntrypoint(p)'
    BY <1>1 DEF AtEntrypoint, Position
  <2>4. InWork(p)' /\ IsFaithful(p)'
    BY <1>1, <2>1, <2>2 DEF InWork, IsActive, IsFaithful
  <2>5. EntrypointChecked(p)'
    BY <1>1 DEF PackageInv, PublisherInv, EntrypointChecked, IsRegular
  <2>6. Recorded(p)'
    BY <1>1, <2>1 DEF PackageInv, PublisherInv, Recorded, IsRight, Bytes
  <2>7. Entrypoint \notin touched[p] => hashed[p] = files[Entrypoint].content
    BY <1>2, HashedWhole
  <2>8. Hashing(p)'
    BY <1>1, <1>2, <2>1, <2>3, <2>7 DEF Hashing
  <2> QED  BY <2>4, <2>5, <2>6, <2>8 DEF PublisherInv
<1>5. ASSUME NEW q \in Publishers, q # p PROVE PublisherInv(q)'
  <2>1. pc'[q] = pc[q]
    BY <1>1, <1>5 DEF PackageInv, PackageTypeOK
  <2> QED  BY <1>1, <2>1, OtherKept DEF PackageInv
<1> QED  BY <1>3, <1>4, <1>5 DEF PackageInv

\* An input has been hashed and is recorded.
LEMMA InputHashedStep ==
    ASSUME PackageInv, NEW p \in Publishers, HashDone(p), ~AtEntrypoint(p)
    PROVE  PackageInv'
<1> DEFINE r == Record(Current(p), hashed[p], size[p])
<1>1. /\ pc[p] = "hash"
      /\ records' = [records EXCEPT ![p] = Append(records[p], r)]
      /\ hashed' = [hashed EXCEPT ![p] = <<>>]
      /\ pc' = [pc EXCEPT ![p] = "check"]
      /\ UNCHANGED <<request, size, manifest, files, touched>>
  BY DEF HashDone, Goto, surroundings
<1>2. /\ Position(p) = Len(records[p]) + 1
      /\ Position(p) \in 1..Len(request[p].inputs)
      /\ Current(p) = request[p].inputs[Position(p)]
      /\ records[p] \in Seq(InputRecords)
      /\ request[p] \in Requests
      /\ request[p].inputs \in Seq(Paths \cup {None})
  BY <1>1, CurrentType
<1>3. Current(p) \in Paths
  BY <1>1 DEF PackageInv, PublisherInv, Hashing
<1>4. r \in InputRecords /\ r.path = Current(p)
  BY <1>3 DEF PackageInv, PackageTypeOK, Record, InputRecords
<1>5. IsRight(r, p)
  <2> SUFFICES ASSUME Current(p) \notin touched[p]
               PROVE  r = Record(Current(p), files[Current(p)].content, Bytes(Current(p)))
    BY <1>4 DEF IsRight
  <2>1. hashed[p] = files[Current(p)].content
    BY HashedWhole
  <2>2. size[p] = Bytes(Current(p))
    BY <1>1 DEF PackageInv, PublisherInv, Hashing, HashedRight
  <2> QED  BY <2>1, <2>2
<1> HIDE DEF r
<1>6. /\ records'[p] = Append(records[p], r) /\ hashed'[p] = << >> /\ pc'[p] = "check"
      /\ request'[p] = request[p]
  BY <1>1 DEF PackageInv, PackageTypeOK
<1>7. /\ records'[p] \in Seq(InputRecords) /\ Len(records'[p]) = Position(p)
      /\ \A n \in 1..Len(records[p]) : records'[p][n] = records[p][n]
      /\ records'[p][Position(p)] = r
  BY <1>2, <1>4, <1>6
<1>8. PackageTypeOK'
  <2>1. records' \in [Publishers -> Seq(InputRecords)]
    BY <1>1, <1>6, <1>7 DEF PackageInv, PackageTypeOK
  <2>2. << >> \in Seq(Chunks)
    OBVIOUS
  <2> QED  BY <1>1, <2>1, <2>2 DEF PackageInv, PackageTypeOK, Places
<1>9. PublisherInv(p)'
  <2>1. InWork(p)' /\ IsFaithful(p)'
    BY <1>1, <1>2, <1>6 DEF PackageInv, PublisherInv, InWork, IsActive, IsFaithful
  <2>2. EntrypointChecked(p)'
    BY <1>1 DEF PackageInv, PublisherInv, EntrypointChecked, IsRegular
  <2>3. Recorded(p)'
    <3>1. Len(records'[p]) <= Len(request'[p].inputs)
      BY <1>2, <1>6, <1>7
    <3>2. ASSUME NEW n \in 1..Len(records'[p])
          PROVE  records'[p][n].path = request'[p].inputs[n] /\ IsRight(records'[p][n], p)
      <4>1. CASE n = Position(p)
        BY <1>2, <1>4, <1>5, <1>6, <1>7, <4>1
      <4>2. CASE n # Position(p)
        <5>1. n \in 1..Len(records[p])
          BY <1>2, <1>7, <4>2
        <5>2. records[p][n].path = request[p].inputs[n] /\ IsRight(records[p][n], p)
          BY <1>1, <5>1 DEF PackageInv, PublisherInv, Recorded
        <5> QED  BY <1>6, <1>7, <5>1, <5>2
      <4> QED  BY <4>1, <4>2
    <3> QED  BY <1>1, <1>6, <3>1, <3>2 DEF Recorded, IsRight, Bytes
  <2>4. Hashing(p)'
    BY <1>6 DEF Hashing
  <2> QED  BY <2>1, <2>2, <2>3, <2>4 DEF PublisherInv
<1>10. ASSUME NEW q \in Publishers, q # p PROVE PublisherInv(q)'
  <2>1. pc'[q] = pc[q] /\ hashed'[q] = hashed[q] /\ records'[q] = records[q]
    BY <1>1, <1>10 DEF PackageInv, PackageTypeOK
  <2> QED  BY <1>1, <2>1, OtherKept DEF PackageInv
<1> QED  BY <1>8, <1>9, <1>10 DEF PackageInv

\* Records of distinct paths in the order of their paths.
LEMMA ByPathAscends ==
    ASSUME NEW rs \in Seq(InputRecords),
           \A k, m \in 1..Len(rs) : rs[k].path = rs[m].path => k = m
    PROVE  /\ ByPath(rs) \in Seq(InputRecords) /\ DOMAIN ByPath(rs) = 1..Len(rs)
           /\ ToSet(ByPath(rs)) = ToSet(rs)
           /\ \A m, n \in 1..Len(rs) : m < n => ByPath(rs)[m].path < ByPath(rs)[n].path
<1> DEFINE X == ToSet(rs)
           before == {pair \in X \X X : pair[1].path < pair[2].path}
<1>1. X \subseteq InputRecords /\ rs \in Seq(X) /\ \A a \in X : a.path \in Nat
  <2>1. X = {rs[n] : n \in 1..Len(rs)}
    BY DEF ToSet
  <2>2. \A a \in InputRecords : a.path \in Nat
    BY FilesAssumption DEF InputRecords
  <2> QED  BY <2>1, <2>2
<1> HIDE DEF X
<1>2. \A a, b \in X : <<a, b>> \in before <=> a.path < b.path
  OBVIOUS
<1> HIDE DEF before
<1>3. \A a \in X : <<a, a>> \notin before
  BY <1>1, <1>2
<1>4. \A a, b, c \in X : <<a, b>> \in before /\ <<b, c>> \in before => <<a, c>> \in before
  BY <1>1, <1>2
<1>5. \A k \in 1..Len(rs) : rs[k] \in X
  BY <1>1
<1>6. \A k, m \in 1..Len(rs) : k # m => <<rs[k], rs[m]>> \in before \/ <<rs[m], rs[k]>> \in before
  BY <1>1, <1>2, <1>5
<1>7. /\ Sorted(rs, before) \in Seq(X) /\ Len(Sorted(rs, before)) = Len(rs)
      /\ ToSet(Sorted(rs, before)) = ToSet(rs)
      /\ \A m, n \in 1..Len(rs) :
            m < n => <<Sorted(rs, before)[m], Sorted(rs, before)[n]>> \in before
  BY <1>1, <1>3, <1>4, <1>6, SortedAscends
<1>8. ByPath(rs) = Sorted(rs, before)
  BY DEF ByPath, before, X
<1>9. \A n \in 1..Len(rs) : ByPath(rs)[n] \in X
  BY <1>7, <1>8
<1>10. \A m, n \in 1..Len(rs) : m < n => ByPath(rs)[m].path < ByPath(rs)[n].path
  BY <1>2, <1>7, <1>8, <1>9
<1>11. ByPath(rs) \in Seq(InputRecords) /\ DOMAIN ByPath(rs) = 1..Len(rs)
  BY <1>1, <1>7, <1>8
<1> QED  BY <1>7, <1>8, <1>10, <1>11

\* What is signed is faithful.
LEMMA SignStep ==
    ASSUME PackageInv, NEW p \in Publishers, Sign(p)
    PROVE  PackageInv'
<1> DEFINE signed == [entrypoint |-> hashed[p], inputs |-> ByPath(records[p])]
<1>1. /\ pc[p] = "sign"
      /\ manifest' = [manifest EXCEPT ![p] = signed]
      /\ records' = [records EXCEPT ![p] = <<>>]
      /\ size' = [size EXCEPT ![p] = 0]
      /\ hashed' = [hashed EXCEPT ![p] = <<>>]
      /\ pc' = [pc EXCEPT ![p] = "write"]
      /\ UNCHANGED <<request, files, touched>>
  BY DEF Sign, Goto, surroundings
<1>2. AtEntrypoint(p) /\ IsInjective(request[p].inputs)
      /\ (Entrypoint \notin touched[p] => hashed[p] = files[Entrypoint].content)
  BY <1>1 DEF PackageInv, PublisherInv, Hashing, IsPackageable
<1>3. /\ request[p] \in Requests /\ request[p].inputs \in Seq(Paths \cup {None})
      /\ records[p] \in Seq(InputRecords)
      /\ Len(records[p]) = Len(request[p].inputs)
  BY <1>1, <1>2, CurrentType
<1>4. \A n \in 1..Len(records[p]) :
         records[p][n].path = request[p].inputs[n] /\ IsRight(records[p][n], p)
  BY <1>1 DEF PackageInv, PublisherInv, Recorded
<1>5. \A k, m \in 1..Len(records[p]) : records[p][k].path = records[p][m].path => k = m
  <2>1. DOMAIN request[p].inputs = 1..Len(records[p])
    BY <1>3
  <2>2. \A k, m \in 1..Len(records[p]) : request[p].inputs[k] = request[p].inputs[m] => k = m
    BY <1>2, <2>1 DEF IsInjective
  <2> QED  BY <1>4, <2>2
<1>6. /\ ByPath(records[p]) \in Seq(InputRecords)
      /\ DOMAIN ByPath(records[p]) = 1..Len(records[p])
      /\ ToSet(ByPath(records[p])) = ToSet(records[p])
      /\ \A m, n \in 1..Len(records[p]) :
            m < n => ByPath(records[p])[m].path < ByPath(records[p])[n].path
  BY <1>3, <1>5, ByPathAscends
<1>7. hashed[p] \in Seq(Chunks)
  BY DEF PackageInv, PackageTypeOK
<1>8. signed \in Manifests /\ signed.inputs = ByPath(records[p]) /\ signed.entrypoint = hashed[p]
  BY <1>6, <1>7 DEF Manifests
<1> HIDE DEF signed
<1>9. << >> \in Seq(InputRecords) /\ << >> \in Seq(Chunks) /\ 0 \in Nat /\ "write" \in Places
  BY DEF Places
<1>10. PackageTypeOK'
  <2>1. pc' \in [Publishers -> Places] /\ size' \in [Publishers -> Nat]
    BY <1>1, <1>9 DEF PackageInv, PackageTypeOK
  <2>2. records' \in [Publishers -> Seq(InputRecords)]
    BY <1>1, <1>9 DEF PackageInv, PackageTypeOK
  <2>3. hashed' \in [Publishers -> Seq(Chunks)]
    BY <1>1, <1>9 DEF PackageInv, PackageTypeOK
  <2>4. manifest' \in [Publishers -> Manifests \cup {None}]
    BY <1>1, <1>8 DEF PackageInv, PackageTypeOK
  <2> QED  BY <1>1, <2>1, <2>2, <2>3, <2>4 DEF PackageInv, PackageTypeOK
<1>11. PublisherInv(p)'
  <2>1. manifest'[p] = signed /\ pc'[p] = "write" /\ request'[p] = request[p]
    BY <1>1 DEF PackageInv, PackageTypeOK
  <2>2. InWork(p)' /\ EntrypointChecked(p)' /\ Recorded(p)' /\ Hashing(p)'
    BY <1>3, <2>1 DEF InWork, IsActive, EntrypointChecked, Recorded, Hashing
  <2>3. ToSet(signed.inputs) = {records[p][n] : n \in 1..Len(records[p])}
    <3>1. ToSet(records[p]) = {records[p][n] : n \in 1..Len(records[p])}
      BY <1>3 DEF ToSet
    <3> QED  BY <1>6, <1>8, <3>1
  <2>4. ToSet(request[p].inputs) = {request[p].inputs[n] : n \in 1..Len(records[p])}
    BY <1>3 DEF ToSet
  <2>5. {r.path : r \in ToSet(signed.inputs)} = ToSet(request[p].inputs)
    BY <1>4, <2>3, <2>4
  <2>6. \A r \in ToSet(signed.inputs) : IsRight(r, p)
    BY <1>4, <2>3
  <2>7. \A m, n \in DOMAIN signed.inputs : m < n => signed.inputs[m].path < signed.inputs[n].path
    BY <1>6, <1>8
  <2>8. Entrypoint \notin touched[p] => signed.entrypoint = files[Entrypoint].content
    BY <1>2, <1>8
  <2>9. \A r : IsRight(r, p)' <=> IsRight(r, p)
    BY <1>1 DEF IsRight, Bytes
  <2>10. IsFaithful(p)'
    BY <1>1, <2>1, <2>5, <2>6, <2>7, <2>8, <2>9 DEF IsFaithful
  <2> QED  BY <2>2, <2>10 DEF PublisherInv
<1>12. ASSUME NEW q \in Publishers, q # p PROVE PublisherInv(q)'
  <2>1. pc'[q] = pc[q] /\ hashed'[q] = hashed[q] /\ records'[q] = records[q]
        /\ size'[q] = size[q] /\ manifest'[q] = manifest[q]
    BY <1>1, <1>12 DEF PackageInv, PackageTypeOK
  <2> QED  BY <1>1, <2>1, OtherKept DEF PackageInv
<1> QED  BY <1>10, <1>11, <1>12 DEF PackageInv

\* Opening the temporary file leaves the manifest as it is.
LEMMA OpenKeepsPackage ==
    ASSUME PackageInv, NEW p \in Publishers, OpenTemporary(p)
    PROVE  PackageInv'
<1>1. /\ pc[p] = "write" /\ pc' = [pc EXCEPT ![p] = "replace"]
      /\ UNCHANGED <<request, records, size, hashed, manifest, files, touched>>
  BY DEF OpenTemporary, Goto, surroundings
<1>2. PackageTypeOK'
  BY <1>1 DEF PackageInv, PackageTypeOK, Places
<1>3. PublisherInv(p)'
  <2>1. pc'[p] = "replace"
    BY <1>1 DEF PackageInv, PackageTypeOK
  <2>2. InWork(p)' /\ EntrypointChecked(p)' /\ Recorded(p)' /\ Hashing(p)'
    BY <1>1, <2>1 DEF PackageInv, PublisherInv, InWork, IsActive, EntrypointChecked, Recorded, Hashing
  <2>3. IsFaithful(p)'
    BY <1>1 DEF PackageInv, PublisherInv, IsFaithful, IsRight, Bytes
  <2> QED  BY <2>2, <2>3 DEF PublisherInv
<1>4. ASSUME NEW q \in Publishers, q # p PROVE PublisherInv(q)'
  <2>1. pc'[q] = pc[q]
    BY <1>1, <1>4 DEF PackageInv, PackageTypeOK
  <2> QED  BY <1>1, <2>1, OtherKept DEF PackageInv
<1> QED  BY <1>2, <1>3, <1>4 DEF PackageInv

\* A change of a file is noted by everyone who is in work.
LEMMA ChangeStep ==
    ASSUME PackageInv, NEW path \in Paths,
           NEW state \in {Regular(c) : c \in Contents} \cup {Irregular}, Change(path, state)
    PROVE  PackageInv'
<1>1. /\ files' = [files EXCEPT ![path] = state]
      /\ touched' = [q \in Publishers |-> IF IsActive(q) THEN touched[q] \cup {path} ELSE {}]
      /\ UNCHANGED <<pc, request, records, size, hashed, manifest>>
  BY DEF Change, packaging
<1>2. state \in [type : {"file", "other"}, content : Seq(Chunks)]
  <2>1. << >> \in Seq(Chunks)
    OBVIOUS
  <2>2. \A c \in Contents : c \in Seq(Chunks)
    BY FilesAssumption
  <2>3. \A c \in Seq(Chunks) :
           /\ [type |-> "file", content |-> c] \in [type : {"file", "other"}, content : Seq(Chunks)]
           /\ [type |-> "other", content |-> c] \in [type : {"file", "other"}, content : Seq(Chunks)]
    OBVIOUS
  <2>4. \A c \in Contents : Regular(c) \in [type : {"file", "other"}, content : Seq(Chunks)]
    BY <2>2, <2>3 DEF Regular
  <2>5. Irregular \in [type : {"file", "other"}, content : Seq(Chunks)]
    BY <2>1, <2>3 DEF Irregular
  <2> QED  BY <2>4, <2>5
<1>3. PackageTypeOK'
  <2>1. files' \in [Paths -> [type : {"file", "other"}, content : Seq(Chunks)]]
    BY <1>1, <1>2 DEF PackageInv, PackageTypeOK
  <2>2. touched' \in [Publishers -> SUBSET Paths]
    BY <1>1 DEF PackageInv, PackageTypeOK
  <2> QED  BY <1>1, <2>1, <2>2 DEF PackageInv, PackageTypeOK
<1>4. ASSUME NEW q \in Publishers PROVE PublisherInv(q)'
  <2>1. PublisherInv(q)
    BY DEF PackageInv
  <2>2. CASE ~IsActive(q)
    <3>1. pc[q] \in {"idle", "done", "failed"} /\ manifest[q] = None
      BY <2>1, <2>2 DEF IsActive, PublisherInv, InWork
    <3> QED  BY <1>1, <2>1, <3>1 DEF PublisherInv, InWork, IsActive, EntrypointChecked, Recorded,
                                     Hashing, IsFaithful
  <2>3. CASE IsActive(q)
    <3>1. \A x \in Paths : x \notin touched'[q] => x \notin touched[q] /\ files'[x] = files[x]
      BY <1>1, <2>3 DEF PackageInv, PackageTypeOK
    <3>2. \A r \in InputRecords : IsRight(r, q) => IsRight(r, q)'
      BY <3>1 DEF IsRight, Bytes, InputRecords
    <3>3. InWork(q)'
      BY <1>1, <2>1 DEF PublisherInv, InWork, IsActive
    <3>4. EntrypointChecked(q)'
      BY <1>1, <2>1, <3>1, FilesAssumption DEF PublisherInv, EntrypointChecked, IsRegular
    <3>5. Recorded(q)'
      <4>1. \A n \in 1..Len(records[q]) : records[q][n] \in InputRecords
        BY DEF PackageInv, PackageTypeOK
      <4>2. Recorded(q)
        BY <2>1 DEF PublisherInv
      <4> QED  BY <1>1, <3>2, <4>1, <4>2 DEF Recorded
    <3>6. Hashing(q)'
      <4>1. Current(q)' = Current(q) /\ AtEntrypoint(q)' = AtEntrypoint(q)
        BY <1>1 DEF Current, AtEntrypoint, Position
      <4>2. Hashing(q)
        BY <2>1 DEF PublisherInv
      <4>3. Current(q) \in Paths /\ HashedRight(q) => HashedRight(q)'
        BY <1>1, <3>1, <4>1 DEF HashedRight, IsRegular, Bytes
      <4> QED  BY <1>1, <3>1, <4>1, <4>2, <4>3, FilesAssumption DEF Hashing
    <3>7. IsFaithful(q)'
      <4> SUFFICES ASSUME manifest[q] # None PROVE IsFaithful(q)'
        BY <1>1 DEF IsFaithful
      <4>1. manifest[q] \in Manifests
        BY DEF PackageInv, PackageTypeOK
      <4>2. manifest[q].inputs \in Seq(InputRecords)
        BY <4>1 DEF Manifests
      <4>3. ToSet(manifest[q].inputs) \subseteq InputRecords
        BY <4>2 DEF ToSet
      <4>4. IsFaithful(q)
        BY <2>1 DEF PublisherInv
      <4> QED  BY <1>1, <3>1, <3>2, <4>3, <4>4, FilesAssumption DEF IsFaithful
    <3> QED  BY <3>3, <3>4, <3>5, <3>6, <3>7 DEF PublisherInv
  <2> QED  BY <2>2, <2>3
<1> QED  BY <1>3, <1>4 DEF PackageInv

-----------------------------------------------------------------------------
(* Publisher: the theorems                                                  *)

\* A publisher that fails leaves the disk and the files.
LEMMA FailsStep ==
    ASSUME PackageInv, WriteInv, NEW p \in Publishers, Fails(p)
    PROVE  PackageInv' /\ WriteInv'
<1>1. Ends(p, "failed") /\ UNCHANGED <<writing, surroundings>>
  BY DEF Fails
<1>2. \A q \in Publishers : pc'[q] = "replace" => pc[q] = "replace"
  BY <1>1, EndsPlace DEF PackageInv
<1> QED  BY <1>1, <1>2, EndsStep, WriteKept

\* A step of package_job.
LEMMA PackageStep ==
    ASSUME PackageInv, WriteInv, NEW p \in Publishers, Package(p)
    PROVE  PackageInv' /\ WriteInv'
<1>1. CASE \E r \in Requests : Begin(p, r)
  <2>1. PICK r \in Requests : Begin(p, r)
    BY <1>1
  <2>2. CASE IsAdmitted(r)
    <3>1. UNCHANGED writing /\ pc' = [pc EXCEPT ![p] = "check"]
      BY <2>1, <2>2 DEF Begin, Goto
    <3>2. \A q \in Publishers : pc'[q] = "replace" => pc[q] = "replace"
      BY <3>1 DEF PackageInv, PackageTypeOK
    <3> QED  BY <2>1, <2>2, <3>1, <3>2, BeginStep, WriteKept
  <2>3. CASE ~IsAdmitted(r)
    BY <2>1, <2>3, FailsStep DEF Begin
  <2> QED  BY <2>2, <2>3
<1>2. CASE CheckInput(p)
  <2>1. UNCHANGED writing /\ pc' = [pc EXCEPT ![p] = "hash"]
    BY <1>2 DEF CheckInput, Goto
  <2>2. \A q \in Publishers : pc'[q] = "replace" => pc[q] = "replace"
    BY <2>1 DEF PackageInv, PackageTypeOK
  <2> QED  BY <1>2, <2>1, <2>2, CheckInputStep, WriteKept
<1>3. CASE InputsDone(p)
  <2>1. UNCHANGED writing /\ pc' = [pc EXCEPT ![p] = "hash"]
    BY <1>3 DEF InputsDone, Goto
  <2>2. \A q \in Publishers : pc'[q] = "replace" => pc[q] = "replace"
    BY <2>1 DEF PackageInv, PackageTypeOK
  <2> QED  BY <1>3, <2>1, <2>2, InputsDoneStep, WriteKept
<1>4. CASE HashChunk(p)
  <2>1. UNCHANGED writing /\ UNCHANGED pc
    BY <1>4 DEF HashChunk
  <2> QED  BY <1>4, <2>1, HashChunkStep, WriteKept
<1>5. CASE HashDone(p)
  <2>1. UNCHANGED writing
        /\ (pc' = [pc EXCEPT ![p] = "sign"] \/ pc' = [pc EXCEPT ![p] = "check"])
    BY <1>5 DEF HashDone, Goto
  <2>2. \A q \in Publishers : pc'[q] = "replace" => pc[q] = "replace"
    BY <2>1 DEF PackageInv, PackageTypeOK
  <2> QED  BY <1>5, <2>1, <2>2, EntrypointHashedStep, InputHashedStep, WriteKept
<1>6. CASE Sign(p)
  <2>1. UNCHANGED writing /\ pc' = [pc EXCEPT ![p] = "write"]
    BY <1>6 DEF Sign, Goto
  <2>2. \A q \in Publishers : pc'[q] = "replace" => pc[q] = "replace"
    BY <2>1 DEF PackageInv, PackageTypeOK
  <2> QED  BY <1>6, <2>1, <2>2, SignStep, WriteKept
<1>7. CASE CheckInputFails(p) \/ InputsRefused(p) \/ HashFails(p) \/ SignFails(p)
  BY <1>7, FailsStep DEF CheckInputFails, InputsRefused, HashFails, SignFails
<1> QED  BY <1>1, <1>2, <1>3, <1>4, <1>5, <1>6, <1>7 DEF Package

\* A step of write_manifest.
LEMMA WritingStep ==
    ASSUME PackageInv, WriteInv, NEW p \in Publishers, Write(p)
    PROVE  PackageInv' /\ WriteInv'
<1>1. CASE OpenTemporary(p)
  BY <1>1, OpenStep, OpenKeepsPackage DEF PackageInv
<1>2. CASE WriteBlock(p)
  <2>1. UNCHANGED <<pc, request, records, size, hashed, manifest, files, touched>>
    BY <1>2 DEF WriteBlock, packaging, surroundings
  <2>2. PackageTypeOK'
    BY <2>1 DEF PackageInv, PackageTypeOK
  <2>3. \A q \in Publishers : PublisherInv(q)'
    BY <2>1, OtherKept DEF PackageInv
  <2>4. WriteInv'
    BY <1>2, WriteStep DEF PackageInv
  <2> QED  BY <2>2, <2>3, <2>4 DEF PackageInv
<1>3. CASE Replace(p)
  <2>1. Ends(p, "done") /\ UNCHANGED surroundings
    BY <1>3 DEF Replace
  <2>2. PackageInv'
    BY <2>1, EndsStep
  <2>3. WriteInv'
    BY <1>3, ReplaceStep DEF PackageInv
  <2> QED  BY <2>2, <2>3
<1>4. CASE WriteFails(p)
  BY <1>4, FailsStep DEF WriteFails
<1> QED  BY <1>1, <1>2, <1>3, <1>4 DEF Write

\* Every step preserves the invariant.
LEMMA PublishingStep ==
    ASSUME PackageInv, WriteInv, [PublisherNext]_publisherVars
    PROVE  PackageInv' /\ WriteInv'
<1>1. ASSUME NEW p \in Publishers, Package(p) PROVE PackageInv' /\ WriteInv'
  BY <1>1, PackageStep
<1>2. ASSUME NEW p \in Publishers, Write(p) PROVE PackageInv' /\ WriteInv'
  BY <1>2, WritingStep
<1>3. ASSUME NEW p \in Publishers, Crash(p) PROVE PackageInv' /\ WriteInv'
  BY <1>3, FailsStep DEF Crash
<1>4. ASSUME NEW path \in Paths, NEW state \in {Regular(c) : c \in Contents} \cup {Irregular},
             Change(path, state)
      PROVE  PackageInv' /\ WriteInv'
  <2>1. UNCHANGED writing /\ UNCHANGED pc
    BY <1>4 DEF Change, packaging
  <2> QED  BY <1>4, <2>1, ChangeStep, WriteKept
<1>5. CASE UNCHANGED publisherVars
  <2>1. UNCHANGED <<pc, request, records, size, hashed, manifest, files, touched>>
        /\ UNCHANGED writing
    BY <1>5 DEF publisherVars, packaging, surroundings
  <2>2. PackageTypeOK'
    BY <2>1 DEF PackageInv, PackageTypeOK
  <2>3. \A q \in Publishers : PublisherInv(q)'
    BY <2>1, OtherKept DEF PackageInv
  <2>4. WriteInv'
    BY <2>1, WriteKept
  <2> QED  BY <2>2, <2>3, <2>4 DEF PackageInv
<1> QED  BY <1>1, <1>2, <1>3, <1>4, <1>5 DEF PublisherNext

\* The invariant holds at first.
LEMMA PublishingInit ==
    ASSUME PublisherInit
    PROVE  PackageInv /\ WriteInv
<1>1. << >> \in Seq(InputRecords) /\ << >> \in Seq(Chunks) /\ << >> \in Seq(Publishers \cup {None})
  OBVIOUS
<1>2. PackageTypeOK
  <2>1. \A path \in Paths : Regular(Initially[path]) \in [type : {"file", "other"}, content : Seq(Chunks)]
    BY FilesAssumption DEF Regular
  <2>2. files \in [Paths -> [type : {"file", "other"}, content : Seq(Chunks)]]
    BY <2>1 DEF PublisherInit
  <2> QED  BY <1>1, <2>2 DEF PublisherInit, PackageTypeOK, Places
<1>3. ASSUME NEW p \in Publishers PROVE PublisherInv(p)
  <2>1. pc[p] = "idle" /\ records[p] = << >> /\ hashed[p] = << >> /\ manifest[p] = None
    BY DEF PublisherInit
  <2> QED  BY <2>1 DEF PublisherInv, InWork, IsActive, EntrypointChecked, Recorded, Hashing, IsFaithful
<1>4. WriteInv
  <2>1. WriteTypeOK
    BY <1>1 DEF PublisherInit, WriteTypeOK
  <2>2. WriterAlone /\ DestinationIsWhole
    BY DEF PublisherInit, WriterAlone, DestinationIsWhole, Holds
  <2> QED  BY <2>1, <2>2 DEF WriteInv
<1> QED  BY <1>2, <1>3, <1>4 DEF PackageInv

\* The inductive invariant of the publishers.
LEMMA PublishingInvariant == PublisherSpec => [](PackageInv /\ WriteInv)
<1>1. PublisherInit => PackageInv /\ WriteInv
  BY PublishingInit
<1>2. (PackageInv /\ WriteInv) /\ [PublisherNext]_publisherVars => (PackageInv /\ WriteInv)'
  BY PublishingStep
<1> QED  BY <1>1, <1>2, PTL DEF PublisherSpec

\* For any number of publishers, files, requests and changes: what package_job
\* signs lists the declared inputs once each, in the order of their paths, and is
\* right about every file that did not change meanwhile.
THEOREM PackagesAreFaithful == PublisherSpec => []PackageIsFaithful
<1>1. PackageInv => PackageIsFaithful
  BY DEF PackageInv, PublisherInv, IsFaithful, IsRight, PackageIsFaithful
<1> QED  BY <1>1, PublishingInvariant, PTL

\* For any number of publishers and blocks: as long as no two of them had the
\* temporary file of write_manifest open at once, the destination is a whole
\* manifest of one of them, whatever failed or ended on the way.
THEOREM DestinationsAreWhole == PublisherSpec => []DestinationIsWhole
<1>1. WriteInv => DestinationIsWhole
  BY DEF WriteInv
<1> QED  BY <1>1, PublishingInvariant, PTL

-----------------------------------------------------------------------------
(* Correctness: the tree over a checkpoint                                  *)

\* A level of the tree is a sequence of hashes.
IsLevel(l) == \E X : l \in Seq(X)

\* The hashes of the leaves, in the order of their names.
LeafLevel(leaves) == [n \in 1..Len(Ordered(leaves)) |-> LeafHash(Ordered(leaves)[n])]

\* The level above l.
Above(l) ==
    [n \in 1..((Len(l) + 1) \div 2) |->
        Node(l[IF 2 * n - 1 <= Len(l) THEN 2 * n - 1 ELSE Len(l)],
             l[IF 2 * n <= Len(l) THEN 2 * n ELSE Len(l)])]

\* Sequences over Nat-named elements that ascend and have the same elements are equal.
LEMMA AscendingUnique ==
    ASSUME NEW X, NEW a \in Seq(X), NEW b \in Seq(X), \A x \in X : x.name \in Nat,
           \A m, n \in 1..Len(a) : m < n => a[m].name < a[n].name,
           \A m, n \in 1..Len(b) : m < n => b[m].name < b[n].name,
           ToSet(a) = ToSet(b)
    PROVE  a = b
<1>1. /\ Len(a) \in Nat /\ Len(b) \in Nat
      /\ \A n \in 1..Len(a) : a[n] \in X /\ a[n].name \in Nat
      /\ \A n \in 1..Len(b) : b[n] \in X /\ b[n].name \in Nat
  OBVIOUS
<1>2. /\ \A n \in 1..Len(a) : \E m \in 1..Len(b) : a[n] = b[m]
      /\ \A n \in 1..Len(b) : \E m \in 1..Len(a) : b[n] = a[m]
  <2>1. ToSet(a) = {a[n] : n \in 1..Len(a)} /\ ToSet(b) = {b[n] : n \in 1..Len(b)}
    BY DEF ToSet
  <2>2. {a[n] : n \in 1..Len(a)} = {b[n] : n \in 1..Len(b)}
    BY <2>1
  <2> QED  BY <2>2
<1>3. ASSUME NEW n \in 1..Len(a), n <= Len(b), \A k \in 1..(n - 1) : a[k] = b[k]
      PROVE  a[n] = b[n]
  <2> SUFFICES ASSUME a[n] # b[n] PROVE FALSE
    OBVIOUS
  <2>1. n \in 1..Len(b)
    BY <1>1, <1>3
  <2>2. PICK m \in 1..Len(b) : a[n] = b[m]
    BY <1>2
  <2>3. PICK k \in 1..Len(a) : b[n] = a[k]
    BY <1>2, <2>1
  <2>4. m >= n
    <3> SUFFICES ASSUME m < n PROVE FALSE
      BY <1>1
    <3>1. m \in 1..Len(a) /\ a[m] = b[m]
      BY <1>1, <1>3
    <3>2. a[m].name < a[n].name /\ a[m].name \in Nat
      BY <1>1, <3>1
    <3> QED  BY <2>2, <3>1, <3>2
  <2>5. k >= n
    <3> SUFFICES ASSUME k < n PROVE FALSE
      BY <1>1
    <3>1. k \in 1..Len(b) /\ a[k] = b[k]
      BY <1>1, <1>3
    <3>2. b[k].name < b[n].name /\ b[k].name \in Nat
      BY <1>1, <2>1, <3>1
    <3> QED  BY <2>3, <3>1, <3>2
  <2>6. b[n].name < a[n].name
    <3>1. m > n
      BY <2>2, <2>4
    <3> QED  BY <2>1, <2>2, <3>1
  <2>7. a[n].name < b[n].name
    <3>1. k > n
      BY <2>3, <2>5
    <3> QED  BY <2>3, <3>1
  <2> QED  BY <1>1, <2>1, <2>6, <2>7
<1>4. \A n \in 1..Len(a) : n <= Len(b) => a[n] = b[n]
  <2> DEFINE differ == {n \in 1..Len(a) : n <= Len(b) /\ a[n] # b[n]}
  <2> SUFFICES ASSUME differ # {} PROVE FALSE
    OBVIOUS
  <2>1. PICK n \in differ : \A k \in differ : n <= k
    <3>1. differ \subseteq Nat
      OBVIOUS
    <3> HIDE DEF differ
    <3> QED  BY <3>1, LeastElement
  <2>2. \A k \in 1..(n - 1) : a[k] = b[k]
    BY <1>1, <2>1
  <2> QED  BY <1>3, <2>1, <2>2
<1>5. ~(Len(a) < Len(b))
  <2> SUFFICES ASSUME Len(a) < Len(b) PROVE FALSE
    OBVIOUS
  <2> DEFINE n == Len(a) + 1
  <2>1. n \in 1..Len(b)
    BY <1>1
  <2>2. PICK m \in 1..Len(a) : b[n] = a[m]
    BY <1>2, <2>1
  <2>3. m \in 1..Len(b) /\ m < n /\ b[m] = a[m]
    BY <1>1, <1>4
  <2>4. b[m].name < b[n].name
    BY <2>1, <2>3
  <2> QED  BY <1>1, <2>1, <2>2, <2>3, <2>4
<1>6. ~(Len(b) < Len(a))
  <2> SUFFICES ASSUME Len(b) < Len(a) PROVE FALSE
    OBVIOUS
  <2> DEFINE n == Len(b) + 1
  <2>1. n \in 1..Len(a)
    BY <1>1
  <2>2. PICK m \in 1..Len(b) : a[n] = b[m]
    BY <1>2, <2>1
  <2>3. m \in 1..Len(a) /\ m < n /\ b[m] = a[m]
    BY <1>1, <1>4
  <2>4. a[m].name < a[n].name
    BY <2>1, <2>3
  <2> QED  BY <1>1, <2>1, <2>2, <2>3, <2>4
<1>7. Len(a) = Len(b) /\ \A n \in 1..Len(a) : a[n] = b[n]
  BY <1>1, <1>4, <1>5, <1>6
<1> QED  BY <1>7

\* What a CheckpointLeaf is.
LeafRecords == [name : Nat, digest : Digests]

\* The leaves of a checkpoint in the order of their names.
LEMMA LeavesOrdered ==
    ASSUME NEW leaves \in Seq(LeafRecords), IsCheckpoint(leaves)
    PROVE  /\ Ordered(leaves) \in Seq(LeafRecords) /\ Len(Ordered(leaves)) = Len(leaves)
           /\ Len(leaves) \in Nat \ {0}
           /\ ToSet(Ordered(leaves)) = ToSet(leaves)
           /\ \A m, n \in 1..Len(leaves) :
                  m < n => Ordered(leaves)[m].name < Ordered(leaves)[n].name
<1> DEFINE before == {pair \in ToSet(leaves) \X ToSet(leaves) : pair[1].name < pair[2].name}
           X == ToSet(leaves)
<1>1. Len(leaves) \in Nat \ {0} /\ DOMAIN leaves = 1..Len(leaves)
      /\ \A n \in 1..Len(leaves) : leaves[n] \in LeafRecords /\ leaves[n].name \in Nat
  <2>1. Len(leaves) \in Nat /\ DOMAIN leaves = 1..Len(leaves)
        /\ \A n \in 1..Len(leaves) : leaves[n] \in LeafRecords
    OBVIOUS
  <2>2. \A x \in LeafRecords : x.name \in Nat
    BY DEF LeafRecords
  <2>3. Len(leaves) # 0
    BY LimitsAssumption DEF IsCheckpoint
  <2> QED  BY <2>1, <2>2, <2>3
<1>2. X = {leaves[n] : n \in 1..Len(leaves)}
  BY <1>1 DEF ToSet
<1>3. leaves \in Seq(X) /\ X \subseteq LeafRecords /\ \A x \in X : x.name \in Nat
  BY <1>1, <1>2
<1>4. \A a, b \in X : <<a, b>> \in before <=> a.name < b.name
  OBVIOUS
<1>5. Ordered(leaves) = Sorted(leaves, before)
  BY DEF Ordered
<1> HIDE DEF before, X
<1>6. /\ \A a \in X : <<a, a>> \notin before
      /\ \A a, b, c \in X : <<a, b>> \in before /\ <<b, c>> \in before => <<a, c>> \in before
  BY <1>3, <1>4
<1>7. \A k, m \in 1..Len(leaves) :
         k # m => <<leaves[k], leaves[m]>> \in before \/ <<leaves[m], leaves[k]>> \in before
  <2>1. \A k, m \in 1..Len(leaves) : leaves[k].name = leaves[m].name => k = m
    BY <1>1 DEF IsCheckpoint, IsInjective
  <2>2. \A k \in 1..Len(leaves) : leaves[k] \in X
    BY <1>2
  <2> QED  BY <1>1, <1>4, <2>1, <2>2
<1> DEFINE s == Sorted(leaves, before)
<1>8. /\ s \in Seq(X) /\ Len(s) = Len(leaves) /\ ToSet(s) = ToSet(leaves)
      /\ \A m, n \in 1..Len(leaves) : m < n => <<s[m], s[n]>> \in before
  BY <1>3, <1>6, <1>7, SortedAscends
<1> HIDE DEF s
<1>9. s \in Seq(LeafRecords) /\ \A n \in 1..Len(leaves) : s[n] \in X
  BY <1>3, <1>8
<1>10. \A m, n \in 1..Len(leaves) : m < n => s[m].name < s[n].name
  BY <1>4, <1>8, <1>9
<1> QED  BY <1>1, <1>5, <1>8, <1>9, <1>10 DEF s

\* The first level is one of leaf hashes, those of the leaves.
LEMMA LeafLevelHashes ==
    ASSUME NEW leaves \in Seq(LeafRecords), IsCheckpoint(leaves)
    PROVE  /\ IsLevel(LeafLevel(leaves)) /\ Len(LeafLevel(leaves)) \in Nat \ {0}
           /\ \A c \in ToSet(LeafLevel(leaves)) : c[1] = "leaf"
           /\ ToSet(LeafLevel(leaves)) = {LeafHash(x) : x \in ToSet(leaves)}
<1> DEFINE o == Ordered(leaves)
<1>1. /\ o \in Seq(LeafRecords) /\ Len(o) \in Nat \ {0} /\ ToSet(o) = ToSet(leaves)
  BY LeavesOrdered
<1>2. LeafLevel(leaves) = [n \in 1..Len(o) |-> LeafHash(o[n])]
  BY DEF LeafLevel
<1> HIDE DEF o
<1>3. ToSet(o) = {o[n] : n \in 1..Len(o)}
  BY <1>1 DEF ToSet
<1>4. ToSet(LeafLevel(leaves)) = {LeafHash(o[n]) : n \in 1..Len(o)}
  BY <1>2 DEF ToSet
<1>5. ToSet(LeafLevel(leaves)) = {LeafHash(x) : x \in ToSet(leaves)}
  BY <1>1, <1>3, <1>4
<1>6. LeafLevel(leaves) \in Seq({LeafHash(x) : x \in ToSet(leaves)}) /\ Len(LeafLevel(leaves)) = Len(o)
  BY <1>1, <1>2, <1>3
<1>7. IsLevel(LeafLevel(leaves))
  BY <1>6 DEF IsLevel
<1>8. \A c \in ToSet(LeafLevel(leaves)) : c[1] = "leaf"
  BY <1>5 DEF LeafHash
<1> QED  BY <1>1, <1>5, <1>6, <1>7, <1>8

\* The level above is a level of nodes, and its nodes hold what l holds.
LEMMA AboveLevel ==
    ASSUME NEW l, IsLevel(l), Len(l) > 0
    PROVE  /\ Len(l) \in Nat /\ DOMAIN l = 1..Len(l)
           /\ IsLevel(Above(l)) /\ Len(Above(l)) \in Nat \ {0}
           /\ \A c \in ToSet(Above(l)) : c[1] = "node"
           /\ ToSet(l) = {c[2] : c \in ToSet(Above(l))} \cup {c[3] : c \in ToSet(Above(l))}
<1>1. PICK X : l \in Seq(X)
  BY DEF IsLevel
<1> DEFINE N == (Len(l) + 1) \div 2
           Left(n) == l[IF 2 * n - 1 <= Len(l) THEN 2 * n - 1 ELSE Len(l)]
           Right(n) == l[IF 2 * n <= Len(l) THEN 2 * n ELSE Len(l)]
<1>2. Len(l) \in Nat /\ DOMAIN l = 1..Len(l) /\ \A n \in 1..Len(l) : l[n] \in X
  BY <1>1
<1>3. N \in Nat \ {0} /\ 2 * N >= Len(l) /\ 2 * N <= Len(l) + 1
  BY <1>2
<1>4. \A n \in 1..N : Left(n) \in ToSet(l) /\ Right(n) \in ToSet(l)
  <2>1. \A n \in 1..N : /\ (IF 2 * n - 1 <= Len(l) THEN 2 * n - 1 ELSE Len(l)) \in 1..Len(l)
                        /\ (IF 2 * n <= Len(l) THEN 2 * n ELSE Len(l)) \in 1..Len(l)
    BY <1>2, <1>3
  <2> QED  BY <1>2, <2>1 DEF ToSet
<1>5. \A k \in 1..Len(l) : \E n \in 1..N : l[k] = Left(n) \/ l[k] = Right(n)
  <2> SUFFICES ASSUME NEW k \in 1..Len(l) PROVE \E n \in 1..N : l[k] = Left(n) \/ l[k] = Right(n)
    OBVIOUS
  <2>1. CASE k % 2 = 0
    <3>1. k \div 2 \in 1..N /\ 2 * (k \div 2) = k
      BY <1>2, <1>3, <2>1
    <3> QED  BY <3>1
  <2>2. CASE k % 2 = 1
    <3>1. (k + 1) \div 2 \in 1..N /\ 2 * ((k + 1) \div 2) - 1 = k
      BY <1>2, <1>3, <2>2
    <3> QED  BY <3>1
  <2>3. k % 2 \in 0..1
    BY <1>2
  <2> QED  BY <2>1, <2>2, <2>3
<1> HIDE DEF N, Left, Right
<1>6. Above(l) = [n \in 1..N |-> <<"node", Left(n), Right(n)>>]
  BY DEF Above, Node, N, Left, Right
<1>7. Above(l) \in Seq({"node"} \X ToSet(l) \X ToSet(l)) /\ Len(Above(l)) = N
  BY <1>3, <1>4, <1>6
<1>8. ToSet(Above(l)) = {<<"node", Left(n), Right(n)>> : n \in 1..N}
  BY <1>6 DEF ToSet
<1>9. ToSet(l) = {c[2] : c \in ToSet(Above(l))} \cup {c[3] : c \in ToSet(Above(l))}
  <2>1. ToSet(l) = {l[k] : k \in 1..Len(l)}
    BY <1>2 DEF ToSet
  <2>2. \A c \in ToSet(Above(l)) : c[2] \in ToSet(l) /\ c[3] \in ToSet(l)
    BY <1>4, <1>8
  <2>3. \A n \in 1..N : \E c \in ToSet(Above(l)) : c[2] = Left(n) /\ c[3] = Right(n)
    <3>1. \A n \in 1..N : <<"node", Left(n), Right(n)>> \in ToSet(Above(l))
      BY <1>8
    <3>2. \A x, y : <<"node", x, y>>[2] = x /\ <<"node", x, y>>[3] = y
      OBVIOUS
    <3> QED  BY <3>1, <3>2, Zenon
  <2>4. \A x \in ToSet(l) : \E c \in ToSet(Above(l)) : x = c[2] \/ x = c[3]
    BY <1>5, <2>1, <2>3
  <2> QED  BY <2>2, <2>4
<1>10. IsLevel(Above(l))
  BY <1>7 DEF IsLevel
<1>11. \A c \in ToSet(Above(l)) : c[1] = "node"
  BY <1>8
<1> QED  BY <1>2, <1>3, <1>7, <1>9, <1>10, <1>11

\* The levels from the leaves up.
Tower(leaves, N, T) ==
    /\ \A k \in 1..N : IsLevel(T[k]) /\ Len(T[k]) \in Nat \ {0}
    /\ T[1] = LeafLevel(leaves)
    /\ \A k \in 1..(N - 1) : Len(T[k]) > 1 /\ T[k + 1] = Above(T[k])

\* l is a level of the tree over leaves.
Reaches(leaves, l) ==
    \E N \in Nat \ {0} : \E T : Tower(leaves, N, T) /\ T[N] = l

\* The last level is the root r.
Topped(leaves, N, T, r) == Tower(leaves, N, T) /\ Len(T[N]) = 1 /\ T[N][1] = r

\* r is the root of the tree over leaves.
IsRootOf(leaves, r) ==
    IsCheckpoint(leaves) /\ \E N \in Nat \ {0} : \E T : Topped(leaves, N, T, r)

\* Roots that are equal have levels with the same hashes, from the top down.
LEMMA LevelsAgree ==
    ASSUME NEW e, NEW o, NEW r, NEW N \in Nat \ {0}, NEW M \in Nat \ {0}, NEW T, NEW U,
           Topped(e, N, T, r), Topped(o, M, U, r)
    PROVE  \A j \in Nat : j < N /\ j < M => ToSet(T[N - j]) = ToSet(U[M - j])
<1>0. /\ Tower(e, N, T) /\ Len(T[N]) = 1 /\ T[N][1] = r
      /\ Tower(o, M, U) /\ Len(U[M]) = 1 /\ U[M][1] = r
  BY DEF Topped
<1> DEFINE differ == {j \in Nat : j < N /\ j < M /\ ToSet(T[N - j]) # ToSet(U[M - j])}
<1> SUFFICES ASSUME differ # {} PROVE FALSE
  OBVIOUS
<1>1. PICK j \in differ : \A k \in differ : j <= k
  <2>1. differ \subseteq Nat
    OBVIOUS
  <2> HIDE DEF differ
  <2> QED  BY <2>1, LeastElement
<1>2. CASE j = 0
  <2>1. N \in 1..N /\ M \in 1..M
    OBVIOUS
  <2>2. IsLevel(T[N]) /\ IsLevel(U[M])
    BY <1>0, <2>1 DEF Tower
  <2>3. DOMAIN T[N] = 1..1 /\ DOMAIN U[M] = 1..1
    <3>1. \A l : IsLevel(l) /\ Len(l) = 1 => DOMAIN l = 1..1
      BY DEF IsLevel
    <3> QED  BY <1>0, <2>2, <3>1
  <2>4. ToSet(T[N]) = {T[N][1]} /\ ToSet(U[M]) = {U[M][1]}
    BY <2>3 DEF ToSet
  <2> QED  BY <1>0, <1>1, <1>2, <2>4
<1>3. CASE j > 0
  <2> DEFINE t == N - j
             u == M - j
  <2>1. t \in 1..(N - 1) /\ u \in 1..(M - 1) /\ t \in 1..N /\ u \in 1..M
    BY <1>1, <1>3
  <2>2. /\ IsLevel(T[t]) /\ Len(T[t]) > 0 /\ T[t + 1] = Above(T[t])
        /\ IsLevel(U[u]) /\ Len(U[u]) > 0 /\ U[u + 1] = Above(U[u])
    <3> HIDE DEF t, u
    <3>1. IsLevel(T[t]) /\ Len(T[t]) > 0 /\ T[t + 1] = Above(T[t])
      BY <1>0, <2>1 DEF Tower
    <3>2. IsLevel(U[u]) /\ Len(U[u]) > 0 /\ U[u + 1] = Above(U[u])
      BY <1>0, <2>1 DEF Tower
    <3> QED  BY <3>1, <3>2
  <2>3. ToSet(T[t + 1]) = ToSet(U[u + 1])
    <3>1. j - 1 \in Nat /\ j - 1 < N /\ j - 1 < M /\ ~(j <= j - 1)
      BY <1>1, <1>3
    <3>2. N - (j - 1) = t + 1 /\ M - (j - 1) = u + 1
      BY <1>1
    <3> QED  BY <1>1, <3>1, <3>2
  <2> HIDE DEF t, u
  <2>4. ToSet(T[t]) = {c[2] : c \in ToSet(T[t + 1])} \cup {c[3] : c \in ToSet(T[t + 1])}
    BY <2>2, AboveLevel
  <2>5. ToSet(U[u]) = {c[2] : c \in ToSet(U[u + 1])} \cup {c[3] : c \in ToSet(U[u + 1])}
    BY <2>2, AboveLevel
  <2>6. ToSet(T[t]) = ToSet(U[u])
    BY <2>3, <2>4, <2>5
  <2> QED  BY <1>1, <2>6 DEF t, u
<1> QED  BY <1>1, <1>2, <1>3

\* A level above the first is no level of leaves.
LEMMA NodesAreNoLeaves ==
    ASSUME NEW e \in Seq(LeafRecords), IsCheckpoint(e), NEW o,
           NEW M \in Nat, NEW U, Tower(o, M, U), NEW k \in 2..M
    PROVE  ToSet(U[k]) # ToSet(LeafLevel(e))
<1>1. k - 1 \in 1..(M - 1) /\ k - 1 \in 1..M /\ (k - 1) + 1 = k
  OBVIOUS
<1> DEFINE l == U[k - 1]
<1>2. IsLevel(l) /\ Len(l) > 0 /\ U[k] = Above(l)
  BY <1>1 DEF Tower
<1> HIDE DEF l
<1>3. \A c \in ToSet(U[k]) : c[1] = "node"
  BY <1>2, AboveLevel
<1>4. \A c \in ToSet(LeafLevel(e)) : c[1] = "leaf"
  BY LeafLevelHashes
<1>5. ToSet(LeafLevel(e)) # {}
  <2> DEFINE f == LeafLevel(e)
  <2>1. IsLevel(f) /\ Len(f) \in Nat \ {0}
    BY LeafLevelHashes
  <2> HIDE DEF f
  <2>2. 1 \in DOMAIN f
    BY <2>1 DEF IsLevel
  <2>3. ToSet(f) # {}
    BY <2>2 DEF ToSet
  <2> QED  BY <2>3 DEF f
<1> QED  BY <1>3, <1>4, <1>5

\* Equal roots are the roots of equal components.
LEMMA EqualRoots ==
    ASSUME NEW e \in Seq(LeafRecords), NEW o \in Seq(LeafRecords), NEW r,
           IsRootOf(e, r), IsRootOf(o, r)
    PROVE  ToSet(e) = ToSet(o)
<1>1a. PICK N \in Nat \ {0} : \E T : Topped(e, N, T, r)
  BY DEF IsRootOf
<1>1. PICK T : Topped(e, N, T, r)
  BY <1>1a
<1>2a. PICK M \in Nat \ {0} : \E U : Topped(o, M, U, r)
  BY DEF IsRootOf
<1>2. PICK U : Topped(o, M, U, r)
  BY <1>2a
<1>3. IsCheckpoint(e) /\ IsCheckpoint(o)
  BY DEF IsRootOf
<1>4. \A j \in Nat : j < N /\ j < M => ToSet(T[N - j]) = ToSet(U[M - j])
  BY <1>1, <1>2, LevelsAgree
<1>5. T[1] = LeafLevel(e) /\ U[1] = LeafLevel(o) /\ Tower(e, N, T) /\ Tower(o, M, U)
  BY <1>1, <1>2 DEF Topped, Tower
<1>6. ~(N < M)
  <2> SUFFICES ASSUME N < M PROVE FALSE
    OBVIOUS
  <2>1. N - 1 \in Nat /\ N - (N - 1) = 1 /\ M - (N - 1) \in 2..M
    OBVIOUS
  <2>2. ToSet(T[1]) = ToSet(U[M - (N - 1)])
    BY <1>4, <2>1
  <2> QED  BY <1>3, <1>5, <2>1, <2>2, NodesAreNoLeaves
<1>7. ~(M < N)
  <2> SUFFICES ASSUME M < N PROVE FALSE
    OBVIOUS
  <2>1. M - 1 \in Nat /\ M - (M - 1) = 1 /\ N - (M - 1) \in 2..N
    OBVIOUS
  <2>2. ToSet(U[1]) = ToSet(T[N - (M - 1)])
    BY <1>4, <2>1
  <2> QED  BY <1>3, <1>5, <2>1, <2>2, NodesAreNoLeaves
<1>8. ToSet(T[1]) = ToSet(U[1])
  <2>1. N = M /\ N - 1 \in Nat /\ N - (N - 1) = 1 /\ N - 1 < N
    BY <1>6, <1>7
  <2> QED  BY <1>4, <2>1
<1>9. {LeafHash(x) : x \in ToSet(e)} = {LeafHash(x) : x \in ToSet(o)}
  BY <1>3, <1>5, <1>8, LeafLevelHashes
<1>10. ToSet(e) \subseteq LeafRecords /\ ToSet(o) \subseteq LeafRecords
  <2>1. ToSet(e) = {e[n] : n \in 1..Len(e)} /\ ToSet(o) = {o[n] : n \in 1..Len(o)}
    BY DEF ToSet
  <2> QED  BY <2>1
<1>11. \A x, y \in LeafRecords : LeafHash(x) = LeafHash(y) => x = y
  BY DEF LeafRecords, LeafHash
<1>12. (\A x \in ToSet(e) : \E y \in ToSet(o) : LeafHash(x) = LeafHash(y))
       /\ (\A y \in ToSet(o) : \E x \in ToSet(e) : LeafHash(x) = LeafHash(y))
  <2>1. \A x \in ToSet(e) : LeafHash(x) \in {LeafHash(y) : y \in ToSet(o)}
    BY <1>9
  <2>2. \A y \in ToSet(o) : LeafHash(y) \in {LeafHash(x) : x \in ToSet(e)}
    BY <1>9
  <2>3. \A x \in ToSet(e) : \E y \in ToSet(o) : LeafHash(x) = LeafHash(y)
    BY <2>1
  <2>4. \A y \in ToSet(o) : \E x \in ToSet(e) : LeafHash(x) = LeafHash(y)
    BY <2>2
  <2> QED  BY <2>3, <2>4
<1>13. \A x \in ToSet(e) : x \in ToSet(o)
  BY <1>10, <1>11, <1>12
<1>14. \A y \in ToSet(o) : y \in ToSet(e)
  BY <1>10, <1>11, <1>12
<1> QED  BY <1>13, <1>14

\* Equal components have equal roots.
LEMMA EqualComponents ==
    ASSUME NEW e \in Seq(LeafRecords), NEW o \in Seq(LeafRecords), NEW r, NEW q,
           IsRootOf(e, r), IsRootOf(o, q), ToSet(e) = ToSet(o)
    PROVE  r = q
<1>1a. PICK N \in Nat \ {0} : \E T : Topped(e, N, T, r)
  BY DEF IsRootOf
<1>1. PICK T : Topped(e, N, T, r)
  BY <1>1a
<1>2a. PICK M \in Nat \ {0} : \E U : Topped(o, M, U, q)
  BY DEF IsRootOf
<1>2. PICK U : Topped(o, M, U, q)
  BY <1>2a
<1>0. /\ Tower(e, N, T) /\ Len(T[N]) = 1 /\ T[N][1] = r
      /\ Tower(o, M, U) /\ Len(U[M]) = 1 /\ U[M][1] = q
  BY <1>1, <1>2 DEF Topped
<1>3. IsCheckpoint(e) /\ IsCheckpoint(o)
  BY DEF IsRootOf
<1>4. Ordered(e) = Ordered(o)
  <2> DEFINE a == Ordered(e)
             b == Ordered(o)
  <2>1. /\ a \in Seq(LeafRecords) /\ ToSet(a) = ToSet(e)
        /\ \A m, n \in 1..Len(a) : m < n => a[m].name < a[n].name
    BY <1>3, LeavesOrdered
  <2>2. /\ b \in Seq(LeafRecords) /\ ToSet(b) = ToSet(o)
        /\ \A m, n \in 1..Len(b) : m < n => b[m].name < b[n].name
    BY <1>3, LeavesOrdered
  <2>3. \A x \in LeafRecords : x.name \in Nat
    BY DEF LeafRecords
  <2> HIDE DEF a, b
  <2>4. a = b
    BY <2>1, <2>2, <2>3, AscendingUnique
  <2> QED  BY <2>4 DEF a, b
<1>5. T[1] = U[1]
  BY <1>0, <1>4 DEF Tower, LeafLevel
<1>6. \A k \in Nat \ {0} : k <= N /\ k <= M => T[k] = U[k]
  <2> DEFINE differ == {k \in Nat \ {0} : k <= N /\ k <= M /\ T[k] # U[k]}
  <2> SUFFICES ASSUME differ # {} PROVE FALSE
    OBVIOUS
  <2>1. PICK k \in differ : \A j \in differ : k <= j
    <3>1. differ \subseteq Nat
      OBVIOUS
    <3> HIDE DEF differ
    <3> QED  BY <3>1, LeastElement
  <2>2. k # 1 /\ k \in Nat \ {0} /\ k <= N /\ k <= M
    BY <1>5, <2>1
  <2>3. k - 1 \in 1..(N - 1) /\ k - 1 \in 1..(M - 1) /\ (k - 1) + 1 = k
    BY <2>2
  <2>4. T[k - 1] = U[k - 1]
    BY <2>1, <2>2, <2>3
  <2>5. T[k] = Above(T[k - 1]) /\ U[k] = Above(U[k - 1])
    BY <1>0, <2>3 DEF Tower
  <2> QED  BY <2>1, <2>4, <2>5
<1>7. ~(N < M)
  <2> SUFFICES ASSUME N < M PROVE FALSE
    OBVIOUS
  <2>1. N \in 1..(M - 1) /\ T[N] = U[N]
    BY <1>6
  <2>2. Len(U[N]) > 1
    BY <1>0, <2>1 DEF Tower
  <2>3. Len(U[N]) = 1
    BY <1>0, <2>1, Zenon
  <2> QED  BY <2>2, <2>3
<1>8. ~(M < N)
  <2> SUFFICES ASSUME M < N PROVE FALSE
    OBVIOUS
  <2>1. M \in 1..(N - 1) /\ T[M] = U[M]
    BY <1>6
  <2>2. Len(T[M]) > 1
    BY <1>0, <2>1 DEF Tower
  <2>3. Len(T[M]) = 1
    BY <1>0, <2>1, Zenon
  <2> QED  BY <2>2, <2>3
<1>9. N = M /\ T[N] = U[N]
  BY <1>6, <1>7, <1>8
<1> QED  BY <1>0, <1>9

-----------------------------------------------------------------------------
(* Correctness: the roots                                                   *)

\* How many of the two roots were made, of which checkpoints.
NoRoot == roots = << >>
OneRoot == \E a : roots = <<a>> /\ IsRootOf(input.expected, a)
TwoRoots == \E a, b : /\ roots = <<a, b>>
                      /\ IsRootOf(input.expected, a) /\ IsRootOf(input.observed, b)

\* Roots are roots of the checkpoints, and a level in work is one of the tree.
RootInv ==
    /\ NoRoot \/ OneRoot \/ TwoRoots
    /\ stage \in {"generating", "sampling"} => NoRoot /\ level = << >>
    /\ stage = "committing" =>
          /\ NoRoot \/ OneRoot
          /\ level # << >> => IsCheckpoint(Leaves) /\ Reaches(Leaves, level)
    /\ stage \in {"verifying", "comparing"} => TwoRoots

\* The arguments' checkpoints are sequences of leaves.
LEMMA LeavesType ==
    ASSUME input \in Inputs
    PROVE  /\ input.expected \in Seq(LeafRecords) /\ input.observed \in Seq(LeafRecords)
           /\ Leaves \in Seq(LeafRecords)
  BY InputsAssumption DEF IsInput, Leaves, LeafRecords

\* checkpoint_merkle_root starts with the level of the leaves.
LEMMA HashLeavesRoots ==
    ASSUME input \in Inputs, RootInv, HashLeaves
    PROVE  RootInv'
<1>1. /\ stage = "committing" /\ IsCheckpoint(Leaves) /\ level' = LeafLevel(Leaves)
      /\ UNCHANGED <<stage, input, roots>>
  BY DEF HashLeaves, LeafLevel
<1> DEFINE T == [k \in 1..1 |-> LeafLevel(Leaves)]
<1>2. Leaves \in Seq(LeafRecords)
  BY LeavesType
<1>3. IsLevel(LeafLevel(Leaves)) /\ Len(LeafLevel(Leaves)) \in Nat \ {0}
  BY <1>1, <1>2, LeafLevelHashes
<1>4. T[1] = LeafLevel(Leaves)
  OBVIOUS
<1> HIDE DEF T
<1>5. \A k \in 1..1 : k = 1
  OBVIOUS
<1>6. \A k \in 1..(1 - 1) : FALSE
  OBVIOUS
<1>7. Tower(Leaves, 1, T)
  BY <1>3, <1>4, <1>5, <1>6 DEF Tower
<1>8. Reaches(Leaves, LeafLevel(Leaves))
  <2>1. 1 \in Nat \ {0}
    OBVIOUS
  <2> QED  BY <1>4, <1>7, <2>1, Zenon DEF Reaches
<1>9. IsCheckpoint(Leaves)' /\ Reaches(Leaves, level)'
  <2>1. Leaves' = Leaves
    BY <1>1 DEF Leaves
  <2>2. IsCheckpoint(Leaves)' <=> IsCheckpoint(Leaves)
    BY <2>1 DEF IsCheckpoint
  <2>3. Reaches(Leaves', level') <=> Reaches(Leaves, LeafLevel(Leaves))
    BY <1>1, <2>1, Zenon
  <2>4. Reaches(Leaves, level)' <=> Reaches(Leaves', level')
    BY DEF Reaches, Tower, LeafLevel, IsLevel, Above, Ordered
  <2> QED  BY <1>1, <1>8, <2>2, <2>3, <2>4
<1> QED  BY <1>1, <1>9 DEF RootInv, NoRoot, OneRoot, TwoRoots

\* One more level of the tree.
LEMMA AboveReaches ==
    ASSUME NEW leaves, NEW l, Reaches(leaves, l), Len(l) > 1
    PROVE  Reaches(leaves, Above(l))
<1>1a. PICK N \in Nat \ {0} : \E T : Tower(leaves, N, T) /\ T[N] = l
  BY DEF Reaches
<1>1. PICK T : Tower(leaves, N, T) /\ T[N] = l
  BY <1>1a
<1> DEFINE U == [k \in 1..(N + 1) |-> IF k <= N THEN T[k] ELSE Above(l)]
<1>2. N \in 1..N /\ N + 1 \in 1..(N + 1) /\ ~(N + 1 <= N) /\ N + 1 \in Nat \ {0} /\ 1 \in 1..N
  OBVIOUS
<1>3. IsLevel(l) /\ Len(l) > 0
  BY <1>1, <1>2 DEF Tower
<1>4. IsLevel(Above(l)) /\ Len(Above(l)) \in Nat \ {0}
  BY <1>3, AboveLevel
<1>5. U[N + 1] = Above(l) /\ \A k \in 1..N : U[k] = T[k]
  BY <1>2
<1> HIDE DEF U
<1>6. \A k \in 1..(N + 1) : IsLevel(U[k]) /\ Len(U[k]) \in Nat \ {0}
  <2> TAKE k \in 1..(N + 1)
  <2>1. CASE k \in 1..N
    BY <1>1, <1>5, <2>1 DEF Tower
  <2>2. CASE k = N + 1
    BY <1>4, <1>5, <2>2
  <2> QED  BY <2>1, <2>2
<1>7. U[1] = LeafLevel(leaves)
  BY <1>1, <1>2, <1>5 DEF Tower
<1>8. \A k \in 1..((N + 1) - 1) : Len(U[k]) > 1 /\ U[k + 1] = Above(U[k])
  <2> TAKE k \in 1..((N + 1) - 1)
  <2>1. CASE k \in 1..(N - 1)
    <3>1. k \in 1..N /\ k + 1 \in 1..N
      BY <2>1
    <3>2. U[k] = T[k] /\ U[k + 1] = T[k + 1]
      BY <1>5, <3>1
    <3>3. Len(T[k]) > 1 /\ T[k + 1] = Above(T[k])
      BY <1>1, <2>1 DEF Tower
    <3> QED  BY <3>2, <3>3
  <2>2. CASE k = N
    <3>1. U[N] = l
      BY <1>1, <1>2, <1>5
    <3> QED  BY <1>5, <2>2, <3>1
  <2> QED  BY <2>1, <2>2
<1>9. Tower(leaves, N + 1, U)
  BY <1>6, <1>7, <1>8 DEF Tower
<1> QED  BY <1>2, <1>5, <1>9, Zenon DEF Reaches

\* checkpoint_merkle_root goes on with the level above.
LEMMA HashLevelRoots ==
    ASSUME input \in Inputs, RootInv, HashLevel
    PROVE  RootInv'
<1>1. /\ stage = "committing" /\ Len(level) > 1 /\ level' = Above(level)
      /\ UNCHANGED <<stage, input, roots>>
  BY DEF HashLevel, Above, Filled
<1>2. level # << >>
  BY <1>1
<1>3. IsCheckpoint(Leaves) /\ Reaches(Leaves, level)
  BY <1>1, <1>2 DEF RootInv
<1>4. Reaches(Leaves, Above(level))
  BY <1>1, <1>3, AboveReaches
<1>5. IsCheckpoint(Leaves)' /\ Reaches(Leaves, level)'
  <2>1. Leaves' = Leaves
    BY <1>1 DEF Leaves
  <2>2. IsCheckpoint(Leaves)' <=> IsCheckpoint(Leaves)
    BY <2>1 DEF IsCheckpoint
  <2>3. Reaches(Leaves', level') <=> Reaches(Leaves, Above(level))
    BY <1>1, <2>1, Zenon
  <2>4. Reaches(Leaves, level)' <=> Reaches(Leaves', level')
    BY DEF Reaches, Tower, LeafLevel, IsLevel, Above, Ordered
  <2> QED  BY <1>3, <1>4, <2>2, <2>3, <2>4
<1> QED  BY <1>1, <1>5 DEF RootInv, NoRoot, OneRoot, TwoRoots

\* The only hash of a level is the root.
LEMMA MakeRootRoots ==
    ASSUME input \in Inputs, RootInv, MakeRoot
    PROVE  RootInv'
<1>1. /\ stage = "committing" /\ Len(level) = 1 /\ roots' = Append(roots, level[1])
      /\ level' = << >> /\ input' = input
      /\ stage' = IF roots = << >> THEN "committing" ELSE "verifying"
  BY DEF MakeRoot
<1>2. level # << >>
  BY <1>1
<1>3. IsCheckpoint(Leaves) /\ Reaches(Leaves, level)
  BY <1>1, <1>2 DEF RootInv
<1> DEFINE r == level[1]
<1>4. IsRootOf(Leaves, r)
  <2>1a. PICK N \in Nat \ {0} : \E T : Tower(Leaves, N, T) /\ T[N] = level
    BY <1>3 DEF Reaches
  <2>1. PICK T : Tower(Leaves, N, T) /\ T[N] = level
    BY <2>1a
  <2>2. Topped(Leaves, N, T, r)
    BY <1>1, <2>1 DEF Topped
  <2> QED  BY <1>3, <2>2 DEF IsRootOf
<1> HIDE DEF r
<1>5. \A a, b : Append(<<a>>, b) = <<a, b>> /\ Append(<< >>, b) = <<b>> /\ <<a>> # << >>
  <2> TAKE a, b
  <2>1. <<a>> \in Seq({a, b}) /\ << >> \in Seq({a, b}) /\ Len(<<a>>) = 1 /\ <<a>>[1] = a
    OBVIOUS
  <2>2. Append(<<a>>, b) = <<a, b>>
    <3> DEFINE s == <<a>>
               u == Append(s, b)
               v == <<a, b>>
    <3>1. s \in Seq({a, b}) /\ Len(s) = 1 /\ s[1] = a
      BY <2>1
    <3>2. v \in Seq({a, b}) /\ Len(v) = 2 /\ v[1] = a /\ v[2] = b
      OBVIOUS
    <3> HIDE DEF s, v
    <3>3. u \in Seq({a, b}) /\ Len(u) = 2 /\ u[1] = a /\ u[2] = b
      BY <3>1
    <3> HIDE DEF u
    <3>4. u = v
      BY <3>2, <3>3
    <3> QED  BY <3>4 DEF s, u, v
  <2>3. Append(<< >>, b) = <<b>>
    BY <2>1
  <2> QED  BY <2>1, <2>2, <2>3
<1>6. CASE NoRoot
  <2>1. roots' = <<r>> /\ stage' = "committing" /\ Leaves = input.expected
    BY <1>1, <1>5, <1>6 DEF NoRoot, r, Leaves
  <2>2. OneRoot'
    BY <1>1, <1>4, <2>1 DEF OneRoot
  <2> QED  BY <1>1, <2>1, <2>2 DEF RootInv
<1>7. CASE OneRoot
  <2>1. PICK a : roots = <<a>> /\ IsRootOf(input.expected, a)
    BY <1>7 DEF OneRoot
  <2>2. roots' = <<a, r>> /\ stage' = "verifying" /\ Leaves = input.observed
    BY <1>1, <1>5, <2>1 DEF r, Leaves
  <2>3. TwoRoots'
    BY <1>1, <1>4, <2>1, <2>2 DEF TwoRoots
  <2> QED  BY <1>1, <2>2, <2>3 DEF RootInv
<1> QED  BY <1>1, <1>6, <1>7 DEF RootInv

\* The other steps leave roots and level as they are.
LEMMA RootsKept ==
    ASSUME input \in Inputs, RootInv, UNCHANGED <<input, roots, level>>,
           \/ stage' = stage \/ stage' = "done"
           \/ stage \in {"generating", "sampling"} /\ stage' \in {"sampling", "committing"}
           \/ stage = "verifying" /\ stage' = "comparing"
    PROVE  RootInv'
<1>1. Leaves' = Leaves
  BY DEF Leaves
<1>2. IsCheckpoint(Leaves)' <=> IsCheckpoint(Leaves)
  BY <1>1 DEF IsCheckpoint
<1>3. Reaches(Leaves', level') <=> Reaches(Leaves, level)
  BY <1>1, Zenon
<1>4. Reaches(Leaves, level)' <=> Reaches(Leaves', level')
  BY DEF Reaches, Tower, LeafLevel, IsLevel, Above, Ordered
<1>5. (NoRoot' <=> NoRoot) /\ (OneRoot' <=> OneRoot) /\ (TwoRoots' <=> TwoRoots)
  BY DEF NoRoot, OneRoot, TwoRoots
<1> QED  BY <1>2, <1>3, <1>4, <1>5 DEF RootInv

\* The invariant says what the roots identify.
LEMMA RootsIdentify ==
    ASSUME input \in Inputs, RootInv
    PROVE  RootIdentifiesCheckpoint
<1> SUFFICES ASSUME Len(roots) = 2
             PROVE  roots[1] = roots[2] <=> ToSet(input.expected) = ToSet(input.observed)
  BY DEF RootIdentifiesCheckpoint
<1>1. \A a : Len(<<a>>) = 1 /\ Len(<< >>) = 0
  OBVIOUS
<1>2. TwoRoots
  BY <1>1 DEF RootInv, NoRoot, OneRoot
<1>3. PICK a, b : roots = <<a, b>> /\ IsRootOf(input.expected, a) /\ IsRootOf(input.observed, b)
  BY <1>2 DEF TwoRoots
<1>4. roots[1] = a /\ roots[2] = b
  BY <1>3
<1> DEFINE e == input.expected
           o == input.observed
<1>5. e \in Seq(LeafRecords) /\ o \in Seq(LeafRecords)
  BY LeavesType
<1>6. IsRootOf(e, a) /\ IsRootOf(o, b)
  BY <1>3
<1> HIDE DEF e, o
<1>7. a = b => ToSet(e) = ToSet(o)
  BY <1>5, <1>6, EqualRoots
<1>8. ToSet(e) = ToSet(o) => a = b
  BY <1>5, <1>6, EqualComponents
<1> QED  BY <1>4, <1>7, <1>8 DEF e, o

-----------------------------------------------------------------------------
(* Correctness: rounding and tolerances                                     *)

\* The greater of two numbers.
LEMMA MaxOfTwo ==
    ASSUME NEW a \in Int, NEW b \in Int
    PROVE  /\ Max({a, b}) \in {a, b} /\ Max({a, b}) >= a /\ Max({a, b}) >= b
<1>1. \E x \in {a, b} : \A y \in {a, b} : x >= y
  OBVIOUS
<1> QED  BY <1>1 DEF Max

\* The smaller of two numbers.
LEMMA MinOfTwo ==
    ASSUME NEW a \in Int, NEW b \in Int
    PROVE  /\ Min({a, b}) \in {a, b} /\ Min({a, b}) <= a /\ Min({a, b}) <= b
<1>1. \E x \in {a, b} : \A y \in {a, b} : x <= y
  OBVIOUS
<1> QED  BY <1>1 DEF Min

\* A finite set of numbers that has a member has a greatest one.
LEMMA GreatestElement ==
    ASSUME NEW S, S \subseteq Nat, IsFiniteSet(S), S # {}
    PROVE  Max(S) \in S /\ \A y \in S : Max(S) >= y
<1> DEFINE Larger(x) == {y \in S : y > x}
           counts == {Cardinality(Larger(x)) : x \in S}
<1>1. \A x \in S : IsFiniteSet(Larger(x)) /\ Cardinality(Larger(x)) \in Nat
  <2> TAKE x \in S
  <2>1. Larger(x) \in SUBSET S
    OBVIOUS
  <2> QED  BY <2>1, FS_Subset, FS_CardinalityType
<1>2. PICK x \in S : \A z \in S : Cardinality(Larger(x)) <= Cardinality(Larger(z))
  <2> HIDE DEF Larger
  <2>1. counts \subseteq Nat /\ counts # {}
    BY <1>1
  <2>2. PICK n \in counts : \A m \in counts : n <= m
    BY <2>1, LeastElement
  <2> QED  BY <2>2
<1>3. \A y \in S : x >= y
  <2> SUFFICES ASSUME NEW y \in S, y > x PROVE FALSE
    OBVIOUS
  <2>0. x \in Nat /\ y \in Nat
    OBVIOUS
  <2>1. Larger(y) \in SUBSET Larger(x) /\ y \in Larger(x) /\ y \notin Larger(y)
    <3>1. \A z \in S : z > y => z > x
      BY <2>0
    <3>2. ~(y > y)
      BY <2>0
    <3>3. Larger(y) \in SUBSET Larger(x)
      BY <3>1
    <3> QED  BY <3>2, <3>3
  <2> HIDE DEF Larger
  <2>2. Cardinality(Larger(y)) <= Cardinality(Larger(x))
        /\ Cardinality(Larger(y)) # Cardinality(Larger(x))
    BY <1>1, <2>1, FS_Subset
  <2>3. Cardinality(Larger(x)) <= Cardinality(Larger(y))
    BY <1>2
  <2> QED  BY <1>1, <2>2, <2>3
<1> QED  BY <1>3 DEF Max

\* Factors of an inequality.
LEMMA Times ==
    ASSUME NEW a \in Nat, NEW b \in Nat, NEW c \in Nat, a <= b
    PROVE  c * a <= c * b /\ c * a \in Nat /\ c * b \in Nat
  OBVIOUS

\* What is kept of x weighs one, or no more than what fits into x.
LEMMA WeightFits ==
    ASSUME NEW x \in Nat
    PROVE  Weight(x) \in Nat \ {0} /\ (Weight(x) = 1 \/ Weight(x) * LeastFull <= x)
<1> DEFINE fitting == {w \in Weights : w = 1 \/ w * LeastFull <= x}
<1>1. fitting \in SUBSET Weights /\ 1 \in fitting
  BY LimitsAssumption
<1>2. IsFiniteSet(fitting)
  BY <1>1, LimitsAssumption, FS_Subset
<1>3. fitting \subseteq Nat /\ fitting # {}
  BY <1>1, LimitsAssumption
<1>4. \A w \in fitting : w \in Nat \ {0} /\ (w = 1 \/ w * LeastFull <= x)
  BY LimitsAssumption
<1>5. Weight(x) = Max(fitting)
  BY DEF Weight
<1> HIDE DEF fitting
<1>6. Max(fitting) \in fitting
  BY <1>2, <1>3, GreatestElement
<1> QED  BY <1>4, <1>5, <1>6

\* Rounding moves x by at most half a weight.
LEMMA RoundedNear ==
    ASSUME NEW x \in Nat
    PROVE  /\ Rounded(x) \in Nat
           /\ Rounded(x) * Parts <= x * (Parts + 1)
           /\ x * (Parts - 1) <= Rounded(x) * Parts
<1> DEFINE w == Weight(x)
           q == x \div w
           m == x % w
           R == Rounded(x)
<1>1. w \in Nat \ {0} /\ (w = 1 \/ w * LeastFull <= x)
  BY WeightFits
<1>2. R = IF 2 * m < w \/ (2 * m = w /\ q % 2 = 0) THEN q * w ELSE q * w + w
  BY DEF Rounded
<1> HIDE DEF w, R
<1>3. q \in Nat /\ m \in Nat /\ m < w /\ x = w * q + m /\ q * w \in Nat
  BY <1>1
<1> HIDE DEF q, m
<1>4. \/ R = q * w /\ 2 * m <= w
      \/ R = q * w + w /\ 2 * m >= w
  BY <1>1, <1>2, <1>3
<1>5. q * w = x - m
  BY <1>1, <1>3
<1>6. R \in Nat /\ 2 * (R - x) <= w /\ 2 * (x - R) <= w /\ (w = 1 => R = x)
  BY <1>1, <1>3, <1>4, <1>5
<1> DEFINE L == LeastFull
<1>7. L \in Nat \ {0} /\ Parts = 2 * L
  BY LimitsAssumption DEF Parts
<1> HIDE DEF L
<1>8. CASE w = 1
  <2>1. R = x
    BY <1>6, <1>8
  <2>2. x * (2 * L) <= x * (2 * L + 1) /\ x * (2 * L - 1) <= x * (2 * L)
    BY <1>7
  <2> QED  BY <1>6, <1>7, <2>1, <2>2 DEF R
<1>9. CASE w * L <= x
  <2>1. (2 * (R - x)) * L <= w * L /\ (2 * (x - R)) * L <= w * L
    BY <1>1, <1>6, <1>7
  <2>2. (2 * (R - x)) * L = R * (2 * L) - x * (2 * L) /\ (2 * (x - R)) * L = x * (2 * L) - R * (2 * L)
    BY <1>6, <1>7
  <2>3. x * (2 * L + 1) = x * (2 * L) + x /\ x * (2 * L - 1) = x * (2 * L) - x
    BY <1>7
  <2>4. {R * (2 * L), x * (2 * L), w * L} \subseteq Int
    BY <1>1, <1>6, <1>7
  <2>5. R * (2 * L) <= x * (2 * L + 1) /\ x * (2 * L - 1) <= R * (2 * L)
    BY <1>9, <2>1, <2>2, <2>3, <2>4
  <2> QED  BY <1>6, <1>7, <2>5 DEF R
<1> QED  BY <1>1, <1>7, <1>8, <1>9 DEF L

\* What is accepted is within the tolerance up to the rounding.
LEMMA AcceptedWithin ==
    ASSUME NEW kind \in Kinds, NEW e \in Int, NEW o \in Int, Accepts(kind, e, o)
    PROVE  IsWithin(kind, e, o)
<1> DEFINE d == Magnitude(o - e)
           m == Magnitude(e)
           abs == Tolerances[kind].absolute
           rel == Tolerances[kind].relative
           D == Rounded(d)
           M == Rounded(m)
           B == Rounded(rel * M)
           P == Parts
<1>1. P \in Nat /\ P - 1 \in Nat
  BY LimitsAssumption DEF Parts
<1>2. abs \in Nat /\ rel \in Nat
  BY PolicyAssumption DEF PolicyIsValid
<1>3. d \in Nat /\ m \in Nat
  BY DEF Magnitude
<1>4. 10 * D <= Max({10 * abs, B})
  BY DEF Accepts
<1> HIDE DEF d, m, abs, rel
<1>5. D \in Nat /\ d * (P - 1) <= D * P
  BY <1>3, RoundedNear
<1>6. M \in Nat /\ M * P <= m * (P + 1)
  BY <1>3, RoundedNear
<1> HIDE DEF D, M
<1>7. rel * M \in Nat
  BY <1>2, <1>6
<1>8. B \in Nat /\ B * P <= (rel * M) * (P + 1)
  BY <1>7, RoundedNear
<1> HIDE DEF B, P
<1>9. 10 * D <= 10 * abs \/ 10 * D <= B
  <2>1. 10 * abs \in Int /\ B \in Int
    BY <1>2, <1>8
  <2>2. Max({10 * abs, B}) \in {10 * abs, B}
    BY <2>1, MaxOfTwo
  <2> QED  BY <1>4, <2>2
\* The difference, times the square of P.
<1>10. 10 * P * (P - 1) * d <= (P * P) * (10 * D) /\ 10 * P * (P - 1) * d \in Nat
  <2>1. d * (P - 1) \in Nat /\ D * P \in Nat /\ 10 * P \in Nat
    BY <1>1, <1>3, <1>5
  <2>2. (10 * P) * (d * (P - 1)) <= (10 * P) * (D * P) /\ (10 * P) * (d * (P - 1)) \in Nat
    BY <1>5, <2>1, Times
  <2>3. (10 * P) * (d * (P - 1)) = 10 * P * (P - 1) * d /\ (10 * P) * (D * P) = (P * P) * (10 * D)
    BY <1>1, <1>3, <1>5
  <2> QED  BY <2>2, <2>3
<1>11. ASSUME 10 * D <= 10 * abs PROVE 10 * P * (P - 1) * d <= 10 * P * P * abs
  <2>1. P * P \in Nat /\ 10 * D \in Nat /\ 10 * abs \in Nat
    BY <1>1, <1>2, <1>5
  <2>2. (P * P) * (10 * D) <= (P * P) * (10 * abs)
    BY <1>11, <2>1, Times
  <2>3. (P * P) * (10 * abs) = 10 * P * P * abs
    BY <1>1, <1>2
  <2>4. (P * P) * (10 * D) \in Nat /\ (P * P) * (10 * abs) \in Nat
    BY <2>1
  <2>5. 10 * P * (P - 1) * d <= 10 * P * P * abs
    BY <1>10, <2>2, <2>3, <2>4
  <2> QED  BY <2>5
<1>12. ASSUME 10 * D <= B PROVE 10 * P * (P - 1) * d <= (P + 1) * (P + 1) * rel * m
  <2>1. P * P \in Nat /\ 10 * D \in Nat /\ B * P \in Nat /\ (rel * M) * (P + 1) \in Nat
    BY <1>1, <1>5, <1>7, <1>8
  <2>2. (P * P) * (10 * D) <= (P * P) * B /\ (P * P) * (10 * D) \in Nat /\ (P * P) * B \in Nat
    BY <1>8, <1>12, <2>1, Times
  <2>3. P * (B * P) <= P * ((rel * M) * (P + 1)) /\ P * ((rel * M) * (P + 1)) \in Nat
    BY <1>1, <1>8, <2>1, Times
  <2>4. (P * P) * B = P * (B * P)
    BY <1>1, <1>8
  <2>5. P * ((rel * M) * (P + 1)) = (rel * (P + 1)) * (M * P)
    BY <1>1, <1>2, <1>6
  <2>6. rel * (P + 1) \in Nat /\ M * P \in Nat /\ m * (P + 1) \in Nat
    BY <1>1, <1>2, <1>3, <1>6
  <2>7. (rel * (P + 1)) * (M * P) <= (rel * (P + 1)) * (m * (P + 1))
        /\ (rel * (P + 1)) * (m * (P + 1)) \in Nat
    BY <1>6, <2>6, Times
  <2>8. (rel * (P + 1)) * (m * (P + 1)) = (P + 1) * (P + 1) * rel * m
    BY <1>1, <1>2, <1>3
  <2>9. 10 * P * (P - 1) * d <= (P + 1) * (P + 1) * rel * m
    BY <1>10, <2>2, <2>3, <2>4, <2>5, <2>7, <2>8
  <2> QED  BY <2>9
<1>13. 10 * P * (P - 1) * d <= 10 * P * P * abs \/ 10 * P * (P - 1) * d <= (P + 1) * (P + 1) * rel * m
  BY <1>9, <1>11, <1>12
<1> DEFINE x == 10 * P * (P - 1) * d
           y == 10 * P * P * abs
           z == (P + 1) * (P + 1) * rel * m
<1>14. IsWithin(kind, e, o) <=> x <= Max({y, z})
  BY DEF IsWithin, P, d, m, abs, rel
<1>15. x \in Int /\ y \in Int /\ z \in Int
  BY <1>1, <1>2, <1>3
<1>16. x <= y \/ x <= z
  BY <1>13
<1> HIDE DEF x, y, z
<1>17. Max({y, z}) \in {y, z} /\ Max({y, z}) >= y /\ Max({y, z}) >= z
  BY <1>15, MaxOfTwo
<1> QED  BY <1>14, <1>15, <1>16, <1>17

-----------------------------------------------------------------------------
(* Correctness: draws without bias                                          *)

\* A multiple of s that is smaller than s is zero.
LEMMA SmallMultiple ==
    ASSUME NEW s \in Nat \ {0}, NEW t \in Int, s * t < s, s * t > -s
    PROVE  t = 0
<1>1. ~(t >= 1)
  <2> SUFFICES ASSUME t >= 1 PROVE FALSE
    OBVIOUS
  <2>1. s * t >= s
    BY Times
  <2> QED  BY <2>1
<1>2. ~(t <= -1)
  <2> SUFFICES ASSUME t <= -1 PROVE FALSE
    OBVIOUS
  <2>1. -t \in Nat /\ -t >= 1
    OBVIOUS
  <2>2. s * (-t) >= s * 1
    BY <2>1, Times
  <2>3. s * (-t) = -(s * t) /\ s * t \in Int
    OBVIOUS
  <2> QED  BY <2>2, <2>3
<1> QED  BY <1>1, <1>2

\* Quotient and remainder.
LEMMA Division ==
    ASSUME NEW x \in Nat, NEW s \in Nat \ {0}
    PROVE  /\ x \div s \in Nat /\ x % s \in Nat /\ x % s < s
           /\ x = s * (x \div s) + (x % s) /\ s * (x \div s) \in Nat
<1>1. x % s \in Nat /\ x % s < s
  OBVIOUS
<1>2. x = s * (x \div s) + (x % s)
  OBVIOUS
<1>3. x \div s \in Nat
  OBVIOUS
<1>4. s * (x \div s) \in Nat
  BY <1>3, Times
<1> QED  BY <1>1, <1>2, <1>3, <1>4

\* Below the greatest multiple of s that is not above M, each remainder occurs
\* equally often.
LEMMA RemaindersAreEven ==
    ASSUME NEW M \in Nat, NEW s \in 1..M, NEW i \in 0..(s - 1)
    PROVE  Cardinality({c \in 0..(M - (M % s) - 1) : c % s = i}) = M \div s
<1> DEFINE q == M \div s
           U == M - (M % s)
           C == {c \in 0..(U - 1) : c % s = i}
           f == [k \in 0..(q - 1) |-> k * s + i]
<1>1. q \in Nat \ {0} /\ U = q * s /\ s \in Nat \ {0} /\ U \in Nat /\ M % s \in Nat
  <2>0. s \in Nat \ {0} /\ s <= M
    OBVIOUS
  <2>1. q \in Nat /\ M % s \in Nat /\ M % s < s /\ M = s * q + (M % s)
    BY <2>0, Division
  <2> HIDE DEF q
  <2>2. q # 0
    BY <2>0, <2>1
  <2>3. s * q = q * s /\ q * s \in Nat
    BY <2>0, <2>1
  <2> QED  BY <2>0, <2>1, <2>2, <2>3
<1> HIDE DEF q, U
<1>2. ASSUME NEW k \in 0..(q - 1) PROVE k * s + i \in C
  <2> DEFINE x == k * s + i
             t == x \div s
             r == x % s
  <2>1. k \in Nat /\ k <= q - 1 /\ i \in Nat /\ i < s /\ s \in Nat \ {0} /\ k * s \in Nat
    BY <1>1
  <2>2. x \in Nat
    BY <2>1
  <2> HIDE DEF x
  <2>3. t \in Nat /\ r \in Nat /\ r < s /\ x = s * t + r /\ s * t \in Nat
    BY <2>1, <2>2
  <2> HIDE DEF t, r
  <2>4. s * (t - k) = i - r
    <3>1. s * (t - k) = s * t - k * s
      BY <2>1, <2>3
    <3> QED  BY <2>1, <2>3, <3>1 DEF x
  <2>5. t - k = 0
    <3>1. s * (t - k) < s /\ s * (t - k) > -s /\ t - k \in Int
      BY <2>1, <2>3, <2>4
    <3> QED  BY <2>1, <3>1, SmallMultiple
  <2>6. r = i
    BY <2>1, <2>3, <2>4, <2>5
  <2>7. x < U
    <3>1. s * k <= s * (q - 1)
      BY <1>1, <2>1, Times
    <3>2. s * (q - 1) = U - s /\ s * k = k * s
      BY <1>1, <2>1
    <3> QED  BY <1>1, <2>1, <3>1, <3>2 DEF x
  <2> QED  BY <1>1, <2>2, <2>6, <2>7 DEF x, r
<1>3. \A k, m \in 0..(q - 1) : k * s + i = m * s + i => k = m
  <2> TAKE k, m \in 0..(q - 1)
  <2> HAVE k * s + i = m * s + i
  <2>1. k \in Int /\ m \in Int /\ i \in Int /\ k * s \in Int /\ m * s \in Int /\ s \in Nat \ {0}
    BY <1>1
  <2>2. s * (k - m) = k * s - m * s
    BY <2>1
  <2>3. s * (k - m) = 0 /\ k - m \in Int
    BY <2>1, <2>2
  <2>4. s * (k - m) < s /\ s * (k - m) > -s
    BY <2>1, <2>3
  <2>5. k - m = 0
    BY <2>1, <2>3, <2>4, SmallMultiple
  <2> QED  BY <2>1, <2>5
<1>4. ASSUME NEW c \in C PROVE \E k \in 0..(q - 1) : k * s + i = c
  <2> DEFINE k == c \div s
             r == c % s
  <2>1. c \in Nat /\ c < U /\ r = i
    BY <1>1
  <2>2. k \in Nat /\ c = s * k + r
    BY <1>1, <2>1, Division
  <2> HIDE DEF k, r
  <2>3. c = k * s + i /\ i \in Nat /\ k * s \in Nat
    <3>1. s * k = k * s /\ k * s \in Nat
      BY <1>1, <2>2
    <3>2. c = s * k + i
      BY <2>1, <2>2
    <3> QED  BY <3>1, <3>2
  <2>4. k <= q - 1
    <3> SUFFICES ASSUME q <= k PROVE FALSE
      BY <1>1, <2>2
    <3>1. s * q <= s * k
      BY <1>1, <2>2, Times
    <3>2. s * q = U /\ s * k = k * s
      BY <1>1, <2>2
    <3> QED  BY <1>1, <2>1, <2>3, <3>1, <3>2
  <2>5. k \in 0..(q - 1)
    BY <1>1, <2>2, <2>4
  <2> QED  BY <2>3, <2>5
<1> HIDE DEF C
<1>5. f \in Bijection(0..(q - 1), C)
  BY <1>2, <1>3, <1>4 DEF Bijection, Injection, Surjection, IsInjective
<1>6. ExistsBijection(0..(q - 1), C)
  BY <1>5, Zenon DEF ExistsBijection
<1>7. IsFiniteSet(0..(q - 1)) /\ Cardinality(0..(q - 1)) = q
  BY <1>1, FS_Interval
<1>8. Cardinality(C) = q
  BY <1>6, <1>7, FS_Bijection
<1> QED  BY <1>8 DEF C, q, U

-----------------------------------------------------------------------------
(* Correctness: the plan of a challenge                                     *)

\* What a ProbeTarget and a ProbeRequest are.
TargetRecords == [kind : Kinds, tensor : Nat, size : 1..Modulus]
RequestRecords == [kind : Kinds, step : Int, tensor : Nat, indices : SUBSET Nat]

\* What is sampled when these steps are: every target at each of them.
Slices(steps) == [step : steps, target : ToSet(input.targets)]

\* s takes the slices of as many steps as were asked for, each once.
IsPlan(steps, s) ==
    /\ steps \subseteq ToSet(input.candidates) /\ Cardinality(steps) = input.steps
    /\ IsFiniteSet(steps)
    /\ s \in Seq(Slices(steps)) /\ ToSet(s) = Slices(steps)
    /\ \A k, m \in 1..Len(s) : s[k] = s[m] => k = m

\* Request r samples slice c as generate_correctness_challenge asks for.
Answers(r, c) ==
    /\ r.kind = c.target.kind /\ r.step = c.step /\ r.tensor = c.target.tensor
    /\ r.indices \subseteq 0..(c.target.size - 1)
    /\ Cardinality(r.indices) = Min({input.values, c.target.size})

\* The types of an input's parts.
LEMMA InputType ==
    ASSUME input \in Inputs
    PROVE  /\ input.checkpoint \in Nat /\ input.candidates \in Seq(Int)
           /\ input.targets \in Seq(TargetRecords)
           /\ input.steps \in Int /\ input.values \in Int
           /\ input.pairs \subseteq Int \X Int
           /\ Modulus \in Nat /\ Kinds \subseteq Nat
<1>1. IsInput(input)
  BY InputsAssumption
<1>2. /\ input.checkpoint \in Nat /\ input.candidates \in Seq(Int)
      /\ input.targets \in Seq(TargetRecords)
      /\ input.pairs \subseteq Int \X Int
  BY <1>1 DEF IsInput, TargetRecords
<1>3. input.steps \in Int /\ input.values \in Int
  BY <1>1 DEF IsInput
<1> QED  BY <1>2, <1>3, LimitsAssumption

\* A target's kind, tensor and size are numbers.
LEMMA TargetFields ==
    \A t \in TargetRecords : /\ t.kind \in Kinds /\ t.kind \in Int /\ t.tensor \in Nat /\ t.tensor \in Int
                             /\ t.size \in 1..Modulus
<1>1. \A x \in Kinds : x \in Int
  BY LimitsAssumption
<1>2. \A t \in TargetRecords : t.kind \in Kinds /\ t.tensor \in Nat /\ t.size \in 1..Modulus
  BY DEF TargetRecords
<1> QED  BY <1>1, <1>2

\* The targets are records of their type, no two with one key.
LEMMA TargetsType ==
    ASSUME input \in Inputs, IsGeneratable(input)
    PROVE  /\ ToSet(input.targets) = {input.targets[n] : n \in 1..Len(input.targets)}
           /\ ToSet(input.targets) \subseteq TargetRecords
           /\ \A t, u \in ToSet(input.targets) :
                 t.kind = u.kind /\ t.tensor = u.tensor => t = u
<1> DEFINE targets == input.targets
<1>1. targets \in Seq(TargetRecords)
  BY InputType
<1>2. IsInjective([n \in DOMAIN targets |-> TargetKey(targets[n])])
  BY DEF IsGeneratable, TargetsAreValid
<1> HIDE DEF targets
<1>3. ToSet(targets) = {targets[n] : n \in 1..Len(targets)}
  BY <1>1 DEF ToSet
<1>4. ToSet(targets) \subseteq TargetRecords
  BY <1>1, <1>3
<1>5. \A k, m \in 1..Len(targets) :
         targets[k].kind = targets[m].kind /\ targets[k].tensor = targets[m].tensor => k = m
  <2>1. DOMAIN targets = 1..Len(targets)
    BY <1>1
  <2>2. \A k, m \in 1..Len(targets) : TargetKey(targets[k]) = TargetKey(targets[m]) => k = m
    BY <1>2, <2>1 DEF IsInjective
  <2> QED  BY <2>2 DEF TargetKey
<1>6. \A t, u \in ToSet(targets) : t.kind = u.kind /\ t.tensor = u.tensor => t = u
  BY <1>3, <1>5
<1> QED  BY <1>3, <1>4, <1>6 DEF targets

\* There are as many slices as steps and targets allow.
LEMMA SlicesCounted ==
    ASSUME input \in Inputs, IsGeneratable(input), NEW steps,
           IsFiniteSet(steps), Cardinality(steps) = input.steps
    PROVE  /\ IsFiniteSet(Slices(steps)) /\ Cardinality(Slices(steps)) \in Nat
           /\ Cardinality(Slices(steps)) <= MaxProbes
<1> DEFINE B == ToSet(input.targets)
           n == Len(input.targets)
           g == [k \in 1..n |-> input.targets[k]]
           f == [p \in steps \X B |-> [step |-> p[1], target |-> p[2]]]
<1>1. n \in Nat /\ B = {input.targets[k] : k \in 1..n}
  BY InputType, TargetsType
<1>2. g \in Surjection(1..n, B)
  <2>1. \A k \in 1..n : input.targets[k] \in B
    BY <1>1
  <2>2. \A b \in B : \E k \in 1..n : input.targets[k] = b
    BY <1>1
  <2> HIDE DEF B, n
  <2>3. g \in [1..n -> B] /\ \A b \in B : \E k \in 1..n : g[k] = b
    BY <2>1, <2>2
  <2> HIDE DEF g
  <2> QED  BY <2>3 DEF Surjection
<1>3. IsFiniteSet(1..n) /\ Cardinality(1..n) = n
  BY <1>1, FS_Interval
<1>4. IsFiniteSet(B) /\ Cardinality(B) <= n
  BY <1>2, <1>3, FS_Surjection
<1> HIDE DEF B
<1>5. Slices(steps) = [step : steps, target : B]
  BY DEF Slices, B
<1>6. f \in Surjection(steps \X B, Slices(steps))
  <2>1. f \in [steps \X B -> Slices(steps)]
    BY <1>5
  <2>2. \A c \in Slices(steps) : <<c.step, c.target>> \in steps \X B
                                 /\ c = [step |-> c.step, target |-> c.target]
    BY <1>5
  <2>3. \A c \in Slices(steps) : \E p \in steps \X B : f[p] = c
    BY <2>2
  <2> QED  BY <2>1, <2>3 DEF Surjection
<1>7. /\ IsFiniteSet(steps \X B)
      /\ Cardinality(steps \X B) = Cardinality(steps) * Cardinality(B)
  BY <1>4, FS_Product
<1>8. IsFiniteSet(Slices(steps)) /\ Cardinality(Slices(steps)) <= Cardinality(steps \X B)
  BY <1>6, <1>7, FS_Surjection
<1>9. Cardinality(B) \in Nat /\ Cardinality(Slices(steps)) \in Nat /\ Cardinality(steps) \in Nat
      /\ Cardinality(steps \X B) \in Nat
  BY <1>4, <1>7, <1>8, FS_CardinalityType
<1>10. input.steps * n <= MaxProbes /\ MaxProbes \in Nat
  BY LimitsAssumption DEF IsGeneratable, CountsAreValid
<1>11. Cardinality(steps) * Cardinality(B) <= Cardinality(steps) * n
       /\ Cardinality(steps) * n \in Nat
  BY <1>1, <1>4, <1>9, Times
<1> HIDE DEF n
<1>12. Cardinality(steps) * n = input.steps * n
  OBVIOUS
<1> QED  BY <1>7, <1>8, <1>9, <1>10, <1>11, <1>12

\* A finite set can be put into a sequence.
LEMMA SequenceOfSet ==
    ASSUME NEW X, IsFiniteSet(X)
    PROVE  /\ SetToSeq(X) \in Seq(X) /\ ToSet(SetToSeq(X)) = X
           /\ \A k, m \in 1..Len(SetToSeq(X)) : SetToSeq(X)[k] = SetToSeq(X)[m] => k = m
<1> DEFINE n == Cardinality(X)
           s == SetToSeq(X)
<1>1. n \in Nat /\ ExistsBijection(1..n, X)
  BY FS_CardinalityType
<1>2. PICK f : f \in Bijection(1..n, X)
  BY <1>1 DEF ExistsBijection
<1>3. f \in [1..n -> X] /\ IsInjective(f)
  BY <1>2 DEF Bijection, Injection
<1>4. s \in [1..n -> X] /\ IsInjective(s)
  BY <1>3 DEF SetToSeq
<1> HIDE DEF s
<1>5. s \in Injection(1..n, X)
  BY <1>4 DEF Injection
<1>6. IsFiniteSet(1..n) /\ Cardinality(1..n) = n
  BY <1>1, FS_Interval
<1>7. s \in Surjection(1..n, X)
  BY <1>1, <1>5, <1>6, FS_Injection
<1> HIDE DEF n
<1>8. s \in Seq(X) /\ Len(s) = n
  BY <1>1, <1>4
<1>9. ToSet(s) = X
  <2>1. ToSet(s) = {s[k] : k \in 1..n}
    BY <1>4 DEF ToSet
  <2>2. \A x \in X : \E k \in 1..n : s[k] = x
    BY <1>7 DEF Surjection
  <2> QED  BY <1>4, <2>1, <2>2
<1>10. \A k, m \in 1..n : s[k] = s[m] => k = m
  BY <1>4 DEF IsInjective
<1> QED  BY <1>8, <1>9, <1>10 DEF s

\* The order of the slices is one of any set of slices.
LEMMA SlicesInOrder ==
    ASSUME input \in Inputs, IsGeneratable(input), NEW steps,
           steps \subseteq ToSet(input.candidates),
           IsFiniteSet(steps), Cardinality(steps) = input.steps
    PROVE  IsPlan(steps, InOrder(Slices(steps)))
<1> DEFINE X == Slices(steps)
           s == SetToSeq(X)
           before == {pair \in X \X X : SliceBefore(pair[1], pair[2])}
           p == Sorted(s, before)
<1>1. IsFiniteSet(X)
  BY SlicesCounted
<1>2. s \in Seq(X) /\ ToSet(s) = X /\ \A k, m \in 1..Len(s) : s[k] = s[m] => k = m
  BY <1>1, SequenceOfSet
<1>3. InOrder(X) = p
  BY DEF InOrder
<1>4. ToSet(input.candidates) \subseteq Int
  <2>1. input.candidates \in Seq(Int)
    BY InputType
  <2> QED  BY <2>1 DEF ToSet
<1>5. \A c \in X : /\ c.step \in Int /\ c.target \in TargetRecords /\ c.target \in ToSet(input.targets)
                   /\ c = [step |-> c.step, target |-> c.target]
  <2>1. ToSet(input.targets) \subseteq TargetRecords
    BY TargetsType
  <2>2. \A c \in X : /\ c.step \in steps /\ c.target \in ToSet(input.targets)
                     /\ c = [step |-> c.step, target |-> c.target]
    BY DEF Slices
  <2> HIDE DEF X
  <2>3. \A c \in X : c.step \in Int
    BY <1>4, <2>2
  <2>4. \A c \in X : c.target \in TargetRecords
    BY <2>1, <2>2
  <2> QED  BY <2>2, <2>3, <2>4, Zenon
<1>6. \A t \in TargetRecords : t.kind \in Int /\ t.tensor \in Int
  BY TargetFields
<1>7. \A a, b \in X : <<a, b>> \in before <=> SliceBefore(a, b)
  OBVIOUS
<1> HIDE DEF X, s, before
<1>8. \A a \in X : <<a, a>> \notin before
  BY <1>5, <1>6, <1>7 DEF SliceBefore
<1>9. \A a, b, c \in X : <<a, b>> \in before /\ <<b, c>> \in before => <<a, c>> \in before
  <2> TAKE a, b, c \in X
  <2>1. /\ a.step \in Int /\ a.target.kind \in Int /\ a.target.tensor \in Int
        /\ b.step \in Int /\ b.target.kind \in Int /\ b.target.tensor \in Int
        /\ c.step \in Int /\ c.target.kind \in Int /\ c.target.tensor \in Int
    BY <1>5, <1>6
  <2>2. SliceBefore(a, b) /\ SliceBefore(b, c) => SliceBefore(a, c)
    BY <2>1 DEF SliceBefore
  <2> QED  BY <1>7, <2>2
<1>10. \A a, b \in X : a # b => <<a, b>> \in before \/ <<b, a>> \in before
  <2> TAKE a, b \in X
  <2> HAVE a # b
  <2>1. /\ a.step \in Int /\ a.target.kind \in Int /\ a.target.tensor \in Int
        /\ b.step \in Int /\ b.target.kind \in Int /\ b.target.tensor \in Int
    BY <1>5, <1>6
  <2>2. a.step # b.step \/ a.target # b.target
    BY <1>5
  <2>3. a.step # b.step \/ a.target.kind # b.target.kind \/ a.target.tensor # b.target.tensor
    BY <1>5, <2>2, TargetsType
  <2>4. SliceBefore(a, b) \/ SliceBefore(b, a)
    BY <2>1, <2>3 DEF SliceBefore
  <2> QED  BY <1>7, <2>4
<1>11. \A k, m \in 1..Len(s) : k # m => <<s[k], s[m]>> \in before \/ <<s[m], s[k]>> \in before
  BY <1>2, <1>10
<1>12. /\ p \in Seq(X) /\ Len(p) = Len(s) /\ ToSet(p) = X
       /\ \A m, n \in 1..Len(p) : m < n => <<p[m], p[n]>> \in before
  BY <1>2, <1>8, <1>9, <1>11, SortedAscends
<1> HIDE DEF p
<1>13. \A k, m \in 1..Len(p) : p[k] = p[m] => k = m
  <2> TAKE k, m \in 1..Len(p)
  <2> HAVE p[k] = p[m]
  <2>1. p[k] \in X /\ k \in Int /\ m \in Int
    BY <1>12
  <2>2. ~(k < m) /\ ~(m < k)
    BY <1>8, <1>12, <2>1
  <2> QED  BY <2>1, <2>2
<1> QED  BY <1>3, <1>12, <1>13 DEF IsPlan, X

\* The requests made so far answer the first slices of s.
Answered(s) ==
    /\ Len(requests) <= Len(s)
    /\ \A n \in 1..Len(requests) : Answers(requests[n], s[n])

\* What is left to sample is the rest of the plan.
RestOf(s) == [n \in 1..(Len(s) - Len(requests)) |-> s[Len(requests) + n]]

\* A plan is being followed; a plan was followed to its end.
Sampling == \E steps, s : IsPlan(steps, s) /\ Answered(s) /\ todo = RestOf(s)
Sampled == \E steps, s : IsPlan(steps, s) /\ Answered(s) /\ Len(requests) = Len(s)

\* The requests follow a plan, and what is selected for the next one is in its
\* tensor and not too much.
ChallengeInv ==
    /\ requests \in Seq(RequestRecords)
    /\ stage = "generating" => requests = << >> /\ selected = {}
    /\ stage = "sampling" =>
          /\ IsGeneratable(input) /\ Sampling
          /\ todo # << >> => /\ selected \subseteq 0..(Size - 1)
                             /\ Cardinality(selected) <= SampleCount
    /\ stage \notin {"generating", "sampling"} /\ requests # << >> =>
          IsGeneratable(input) /\ Sampled

\* The tail of a sequence, place by place.
LEMMA TailOf ==
    ASSUME NEW X, NEW s \in Seq(X), s # << >>
    PROVE  /\ Tail(s) = [n \in 1..(Len(s) - 1) |-> s[n + 1]]
           /\ Tail(s) \in Seq(X) /\ Len(Tail(s)) = Len(s) - 1
<1> DEFINE u == Tail(s)
<1>1. Len(s) \in Nat \ {0}
  OBVIOUS
<1>2. u \in Seq(X)
  OBVIOUS
<1>3. Len(u) = Len(s) - 1
  OBVIOUS
<1>4. \A n \in 1..(Len(s) - 1) : u[n] = s[n + 1]
  BY <1>1
<1> HIDE DEF u
<1>5. u = [n \in 1..Len(u) |-> u[n]]
  BY <1>2
<1>6. u = [n \in 1..(Len(s) - 1) |-> s[n + 1]]
  BY <1>3, <1>4, <1>5
<1> QED  BY <1>2, <1>3, <1>6 DEF u

\* The head of what is left is the slice whose turn it is.
LEMMA HeadOfPlan ==
    ASSUME input \in Inputs, IsGeneratable(input), requests \in Seq(RequestRecords), todo # << >>,
           NEW steps, NEW s, IsPlan(steps, s), Answered(s), todo = RestOf(s)
    PROVE  /\ Len(requests) + 1 \in 1..Len(s) /\ Head(todo) = s[Len(requests) + 1]
           /\ Head(todo) \in Slices(steps)
           /\ Head(todo).target \in TargetRecords /\ Head(todo).step \in Int
           /\ todo \in Seq(Slices(steps)) /\ Len(todo) = Len(s) - Len(requests)
<1> DEFINE k == Len(requests)
           X == Slices(steps)
<1>1. k \in Nat /\ Len(s) \in Nat /\ k <= Len(s) /\ s \in Seq(X)
  BY DEF IsPlan, Answered
<1>2. todo = [n \in 1..(Len(s) - k) |-> s[k + n]]
  BY DEF RestOf
<1> HIDE DEF k, X
<1>3. \A n \in 1..(Len(s) - k) : s[k + n] \in X
  BY <1>1
<1>4. Len(s) - k \in Nat
  BY <1>1
<1>5. todo \in Seq(X) /\ Len(todo) = Len(s) - k
  BY <1>2, <1>3, <1>4
<1>6. Len(todo) > 0
  BY <1>5
<1>7. k + 1 \in 1..Len(s) /\ 1 \in 1..(Len(s) - k)
  BY <1>1, <1>5, <1>6
<1>8. Head(todo) = s[k + 1] /\ s[k + 1] \in X
  BY <1>2, <1>3, <1>5, <1>6, <1>7
<1>9. \A c \in X : c.step \in steps /\ c.target \in ToSet(input.targets)
  BY DEF X, Slices
<1>10. steps \subseteq Int
  <2>1. input.candidates \in Seq(Int)
    BY InputType
  <2>2. ToSet(input.candidates) \subseteq Int
    BY <2>1 DEF ToSet
  <2> QED  BY <2>2 DEF IsPlan
<1>11. ToSet(input.targets) \subseteq TargetRecords
  BY TargetsType
<1>12. Head(todo).target \in TargetRecords /\ Head(todo).step \in Int
  BY <1>8, <1>9, <1>10, <1>11
<1> QED  BY <1>5, <1>7, <1>8, <1>12 DEF k, X

\* The size of the tensor, and how much is asked of it, are positive.
LEMMA SizeType ==
    ASSUME input \in Inputs, ChallengeInv, stage = "sampling", todo # << >>
    PROVE  /\ Size \in 1..Modulus /\ SampleCount \in Nat \ {0}
           /\ SampleCount <= input.values /\ SampleCount <= MaxValuesPerProbe
<1>1. IsGeneratable(input) /\ Sampling /\ requests \in Seq(RequestRecords)
  BY DEF ChallengeInv
<1>2. PICK steps, s : IsPlan(steps, s) /\ Answered(s) /\ todo = RestOf(s)
  BY <1>1 DEF Sampling
<1>3. Head(todo).target \in TargetRecords
  BY <1>1, <1>2, HeadOfPlan
<1>4. Size \in 1..Modulus
  BY <1>3, TargetFields DEF Size
<1>5. input.values \in 1..MaxValuesPerProbe /\ MaxValuesPerProbe \in Nat /\ Modulus \in Nat
  BY <1>1, LimitsAssumption DEF IsGeneratable, CountsAreValid
<1> DEFINE a == input.values
           b == Size
<1>6. a \in Int /\ b \in Int
  BY <1>4, <1>5
<1> HIDE DEF a, b
<1>7. Min({a, b}) \in {a, b} /\ Min({a, b}) <= a
  BY <1>6, MinOfTwo
<1>8. SampleCount = Min({a, b})
  BY DEF SampleCount, a, b
<1> QED  BY <1>4, <1>5, <1>7, <1>8 DEF a, b

\* The steps of a plan are not told apart by a step that leaves input alone.
LEMMA PlanKept ==
    ASSUME UNCHANGED input
    PROVE  /\ IsGeneratable(input)' <=> IsGeneratable(input)
           /\ \A steps, s : IsPlan(steps, s)' <=> IsPlan(steps, s)
           /\ \A r, c : Answers(r, c)' <=> Answers(r, c)
<1>1. IsGeneratable(input)' <=> IsGeneratable(input)
  BY DEF IsGeneratable, StepsAreValid, TargetsAreValid, CountsAreValid, TargetKey
<1>2. \A steps, s : IsPlan(steps, s)' <=> IsPlan(steps, s)
  BY DEF IsPlan, Slices
<1>3. \A r, c : Answers(r, c)' <=> Answers(r, c)
  BY DEF Answers
<1> QED  BY <1>1, <1>2, <1>3

\* No slice is asked for less than nothing.
LEMMA SomethingIsAsked ==
    ASSUME input \in Inputs, IsGeneratable(input), NEW steps, NEW c \in Slices(steps)
    PROVE  0 <= Min({input.values, c.target.size}) /\ Min({input.values, c.target.size}) \in 1..MaxValuesPerProbe
<1> DEFINE a == input.values
           b == c.target.size
<1>1. c.target \in ToSet(input.targets)
  BY DEF Slices
<1>2. c.target \in TargetRecords
  BY <1>1, TargetsType
<1>3. b \in 1..Modulus /\ Modulus \in Nat
  BY <1>2, TargetFields, LimitsAssumption
<1>4. a \in 1..MaxValuesPerProbe /\ MaxValuesPerProbe \in Nat
  BY LimitsAssumption DEF IsGeneratable, CountsAreValid
<1> HIDE DEF a, b
<1>5. Min({a, b}) \in {a, b} /\ Min({a, b}) <= a
  BY <1>3, <1>4, MinOfTwo
<1>6. 0 <= Min({a, b}) /\ Min({a, b}) \in 1..MaxValuesPerProbe
  BY <1>3, <1>4, <1>5
<1> QED  BY <1>6 DEF a, b

\* generate_correctness_challenge draws the steps and puts the slices in order.
LEMMA GenerateChallenge ==
    ASSUME input \in Inputs, ChallengeInv, Generate
    PROVE  ChallengeInv'
<1>1. /\ stage = "generating" /\ IsGeneratable(input) /\ stage' = "sampling"
      /\ UNCHANGED <<input, selected, requests>>
      /\ requests = << >> /\ selected = {}
  BY DEF Generate, ChallengeInv
<1>2. PICK steps \in kSubset(input.steps, ToSet(input.candidates)) :
         todo' = InOrder([step : steps, target : ToSet(input.targets)])
  BY DEF Generate
<1>3. steps \subseteq ToSet(input.candidates) /\ Cardinality(steps) = input.steps
  BY DEF kSubset
<1>4. IsFiniteSet(steps)
  <2> DEFINE n == Len(input.candidates)
             g == [k \in 1..n |-> input.candidates[k]]
  <2>1. input.candidates \in Seq(Int)
    BY InputType
  <2>2. n \in Nat /\ ToSet(input.candidates) = {input.candidates[k] : k \in 1..n}
    BY <2>1 DEF ToSet
  <2>3. g \in Surjection(1..n, ToSet(input.candidates))
    BY <2>2 DEF Surjection
  <2>4. IsFiniteSet(1..n)
    BY <2>2, FS_Interval
  <2>5. IsFiniteSet(ToSet(input.candidates))
    BY <2>3, <2>4, FS_Surjection
  <2>6. steps \in SUBSET ToSet(input.candidates)
    BY <1>3
  <2> QED  BY <2>5, <2>6, FS_Subset
<1>0. PICK s : s = InOrder(Slices(steps))
  OBVIOUS
<1>5. IsPlan(steps, s)
  BY <1>0, <1>1, <1>3, <1>4, SlicesInOrder
<1>6. todo' = s
  BY <1>0, <1>2 DEF Slices
<1>7. s \in Seq(Slices(steps))
  BY <1>5 DEF IsPlan
<1>8. Len(requests) = 0
  BY <1>1
<1>9. RestOf(s)' = s
  <2>1. RestOf(s)' = [n \in 1..(Len(s) - 0) |-> s[0 + n]]
    BY <1>1, <1>8 DEF RestOf
  <2>2. Len(s) - 0 = Len(s) /\ \A n \in 1..Len(s) : 0 + n = n
    BY <1>7
  <2>3. s = [n \in 1..Len(s) |-> s[n]]
    BY <1>7
  <2> QED  BY <2>1, <2>2, <2>3
<1>10. Answered(s)'
  BY <1>1, <1>7, <1>8 DEF Answered
<1>11. Sampling'
  BY <1>1, <1>5, <1>6, <1>9, <1>10, PlanKept DEF Sampling
<1>12. requests' \in Seq(RequestRecords) /\ IsGeneratable(input)'
  BY <1>1, PlanKept DEF ChallengeInv
<1>13. ASSUME todo' # << >>
       PROVE  selected' \subseteq 0..(Size' - 1) /\ Cardinality(selected') <= SampleCount'
  <2>1. Cardinality(selected') = 0 /\ selected' = {}
    BY <1>1, FS_EmptySet
  <2>2. Head(todo') \in Slices(steps)
    BY <1>6, <1>7, <1>13
  <2>3. 0 <= SampleCount'
    BY <1>1, <2>2, SomethingIsAsked DEF SampleCount, Size
  <2> QED  BY <2>1, <2>3
<1> QED  BY <1>1, <1>11, <1>12, <1>13 DEF ChallengeInv

\* _sample_indices draws once more.
LEMMA DrawChallenge ==
    ASSUME input \in Inputs, ChallengeInv, NEW candidate \in Nat, Draw(candidate)
    PROVE  ChallengeInv'
<1>1. /\ stage = "sampling" /\ todo # << >> /\ Cardinality(selected) < SampleCount
      /\ UNCHANGED <<stage, input, todo, requests>>
  BY DEF Draw, IsSampling
<1>2. /\ Size \in 1..Modulus /\ SampleCount \in Nat \ {0}
  BY <1>1, SizeType
<1>3. selected \subseteq 0..(Size - 1) /\ Cardinality(selected) <= SampleCount
  BY <1>1 DEF ChallengeInv
<1> DEFINE x == candidate % Size
<1>4. x \in 0..(Size - 1)
  <2>1. Size \in Nat \ {0}
    BY <1>2
  <2> QED  BY <2>1, Division
<1>5. IsFiniteSet(selected) /\ Cardinality(selected) \in Nat
  <2>1. selected \in SUBSET (0..(Size - 1)) /\ Size - 1 \in Int
    BY <1>2, <1>3
  <2>2. IsFiniteSet(0..(Size - 1))
    BY <2>1, FS_Interval
  <2> QED  BY <2>1, <2>2, FS_Subset, FS_CardinalityType
<1> HIDE DEF x
<1>6. Cardinality(selected \cup {x}) <= SampleCount
  <2>1. Cardinality(selected \cup {x}) =
           IF x \in selected THEN Cardinality(selected) ELSE Cardinality(selected) + 1
    BY <1>5, FS_AddElement
  <2>2. CASE x \in selected
    BY <1>3, <2>1, <2>2
  <2>3. CASE x \notin selected
    BY <1>1, <1>2, <1>5, <2>1, <2>3
  <2> QED  BY <2>2, <2>3
<1>7. selected' = selected \cup {x} \/ selected' = selected
  BY DEF Draw, x
<1>8. selected' \subseteq 0..(Size - 1) /\ Cardinality(selected') <= SampleCount
  BY <1>3, <1>4, <1>6, <1>7
<1>9. Size' = Size /\ SampleCount' = SampleCount
  BY <1>1 DEF Size, SampleCount
<1>10. Sampling' /\ IsGeneratable(input)'
  <2>1. PICK steps, s : IsPlan(steps, s) /\ Answered(s) /\ todo = RestOf(s)
    BY <1>1 DEF ChallengeInv, Sampling
  <2>2. Answered(s)' /\ todo' = RestOf(s)'
    BY <1>1, <2>1, PlanKept DEF Answered, RestOf
  <2> QED  BY <1>1, <2>1, <2>2, PlanKept DEF Sampling, ChallengeInv
<1> QED  BY <1>1, <1>8, <1>9, <1>10 DEF ChallengeInv

\* A sampled slice becomes a request.
LEMMA RequestChallenge ==
    ASSUME input \in Inputs, ChallengeInv, MakeRequest
    PROVE  ChallengeInv'
<1> DEFINE r == [kind |-> Head(todo).target.kind, step |-> Head(todo).step,
                 tensor |-> Head(todo).target.tensor, indices |-> selected]
           k == Len(requests)
<1>1. /\ stage = "sampling" /\ todo # << >> /\ Cardinality(selected) >= SampleCount
      /\ requests' = Append(requests, r) /\ selected' = {} /\ todo' = Tail(todo)
      /\ UNCHANGED <<stage, input>>
  BY DEF MakeRequest
<1>2. /\ requests \in Seq(RequestRecords) /\ IsGeneratable(input) /\ Sampling
      /\ selected \subseteq 0..(Size - 1) /\ Cardinality(selected) <= SampleCount
  BY <1>1 DEF ChallengeInv
<1>3. Size \in 1..Modulus /\ SampleCount \in Nat \ {0} /\ Modulus \in Nat
  BY <1>1, SizeType, LimitsAssumption
<1>4. selected \in SUBSET Nat /\ Cardinality(selected) = SampleCount
  <2>1. selected \in SUBSET (0..(Size - 1)) /\ Size - 1 \in Int
    BY <1>2, <1>3
  <2>2. IsFiniteSet(0..(Size - 1))
    BY <2>1, FS_Interval
  <2>3. Cardinality(selected) \in Nat
    BY <2>1, <2>2, FS_Subset, FS_CardinalityType
  <2>4. selected \in SUBSET Nat
    BY <2>1, <1>3
  <2> QED  BY <1>1, <1>2, <1>3, <2>3, <2>4
<1>5. PICK steps, s : IsPlan(steps, s) /\ Answered(s) /\ todo = RestOf(s)
  BY <1>2 DEF Sampling
<1>6. /\ k + 1 \in 1..Len(s) /\ Head(todo) = s[k + 1] /\ Head(todo) \in Slices(steps)
      /\ Head(todo).target \in TargetRecords /\ Head(todo).step \in Int
      /\ todo \in Seq(Slices(steps)) /\ Len(todo) = Len(s) - k
  BY <1>1, <1>2, <1>5, HeadOfPlan
<1>7. k \in Nat /\ Len(s) \in Nat /\ s \in Seq(Slices(steps)) /\ k <= Len(s)
  BY <1>2, <1>5 DEF IsPlan, Answered
<1>8. r \in RequestRecords
  <2>1. Head(todo).target.kind \in Kinds /\ Head(todo).target.tensor \in Nat
    BY <1>6, TargetFields
  <2> QED  BY <1>4, <1>6, <2>1 DEF RequestRecords
<1>9. Answers(r, s[k + 1])
  BY <1>2, <1>4, <1>6 DEF Answers, Size, SampleCount
<1> HIDE DEF r
<1>10. /\ requests' \in Seq(RequestRecords) /\ Len(requests') = k + 1
       /\ \A n \in 1..k : requests'[n] = requests[n]
       /\ requests'[k + 1] = r
  BY <1>1, <1>2, <1>8
<1>11. Answered(s)'
  <2>1. \A n \in 1..(k + 1) : Answers(requests'[n], s[n])
    <3> TAKE n \in 1..(k + 1)
    <3>1. CASE n \in 1..k
      BY <1>5, <1>10, <3>1 DEF Answered
    <3>2. CASE n = k + 1
      BY <1>9, <1>10, <3>2
    <3> QED  BY <1>7, <3>1, <3>2
  <2>2. \A n \in 1..(k + 1) : Answers(requests[n], s[n])'
    <3>1. \A x, c : Answers(x, c)' <=> Answers(x, c)
      BY <1>1, PlanKept
    <3>2. \A n \in 1..(k + 1) : Answers(requests[n], s[n])' <=> Answers(requests'[n], s[n])
      BY <1>1 DEF Answers
    <3> QED  BY <2>1, <3>2
  <2> QED  BY <1>6, <1>10, <2>2 DEF Answered
<1>12. todo' = RestOf(s)'
  <2>1. RestOf(s)' = [n \in 1..(Len(s) - (k + 1)) |-> s[(k + 1) + n]]
    BY <1>10 DEF RestOf
  <2>2. todo = [n \in 1..(Len(s) - k) |-> s[k + n]]
    BY <1>5 DEF RestOf
  <2> HIDE DEF k
  <2>3. Tail(todo) = [n \in 1..(Len(todo) - 1) |-> todo[n + 1]]
    BY <1>1, <1>6, TailOf
  <2>4. Len(todo) - 1 = Len(s) - (k + 1)
    BY <1>6, <1>7
  <2>5. \A n \in 1..(Len(s) - (k + 1)) : n + 1 \in 1..(Len(s) - k) /\ k + (n + 1) = (k + 1) + n
    BY <1>7
  <2>6. \A n \in 1..(Len(s) - (k + 1)) : todo[n + 1] = s[(k + 1) + n]
    BY <2>2, <2>5
  <2> QED  BY <1>1, <2>1, <2>3, <2>4, <2>6
<1>13. Sampling' /\ IsGeneratable(input)'
  BY <1>1, <1>2, <1>5, <1>11, <1>12, PlanKept DEF Sampling
<1>14. ASSUME todo' # << >>
       PROVE  selected' \subseteq 0..(Size' - 1) /\ Cardinality(selected') <= SampleCount'
  <2>1. Cardinality(selected') = 0 /\ selected' = {}
    BY <1>1, FS_EmptySet
  <2>2. todo' \in Seq(Slices(steps))
    BY <1>1, <1>6
  <2>3. Head(todo') \in Slices(steps)
    BY <1>14, <2>2
  <2>4. 0 <= SampleCount'
    BY <1>1, <1>2, <2>3, SomethingIsAsked DEF SampleCount, Size
  <2> QED  BY <2>1, <2>4
<1> QED  BY <1>1, <1>10, <1>13, <1>14 DEF ChallengeInv

-----------------------------------------------------------------------------
(* Correctness: a complete challenge                                        *)

\* In a challenge no two requests are of one probe, and each asks for something.
LEMMA RequestsDiffer ==
    ASSUME input \in Inputs, requests \in Seq(RequestRecords), IsGeneratable(input),
           NEW steps, NEW s, IsPlan(steps, s), Answered(s)
    PROVE  /\ \A k, m \in 1..Len(requests) :
                 /\ requests[k].kind = requests[m].kind /\ requests[k].step = requests[m].step
                 /\ requests[k].tensor = requests[m].tensor
                 => k = m
           /\ \A n \in 1..Len(requests) :
                 /\ requests[n].indices \in SUBSET (0..Modulus) /\ IsFiniteSet(requests[n].indices)
                 /\ Cardinality(requests[n].indices) \in 1..MaxValuesPerProbe
                 /\ requests[n].step \in steps
<1>1. /\ Len(requests) \in Nat /\ Len(s) \in Nat /\ Len(requests) <= Len(s)
      /\ \A n \in 1..Len(requests) : n \in 1..Len(s) /\ Answers(requests[n], s[n])
      /\ \A n \in 1..Len(s) : s[n] \in Slices(steps)
  BY DEF IsPlan, Answered
<1>2. \A c \in Slices(steps) : /\ c.step \in steps /\ c.target \in ToSet(input.targets)
                               /\ c = [step |-> c.step, target |-> c.target]
  BY DEF Slices
<1>3. ToSet(input.targets) \subseteq TargetRecords
      /\ \A t, u \in ToSet(input.targets) : t.kind = u.kind /\ t.tensor = u.tensor => t = u
  BY TargetsType
<1>4. ASSUME NEW k \in 1..Len(requests), NEW m \in 1..Len(requests),
             requests[k].kind = requests[m].kind, requests[k].step = requests[m].step,
             requests[k].tensor = requests[m].tensor
      PROVE  k = m
  <2>1. s[k] \in Slices(steps) /\ s[m] \in Slices(steps) /\ k \in 1..Len(s) /\ m \in 1..Len(s)
    BY <1>1
  <2>2. /\ s[k].target.kind = s[m].target.kind /\ s[k].step = s[m].step
        /\ s[k].target.tensor = s[m].target.tensor
    BY <1>1, <1>4 DEF Answers
  <2>3. s[k].target = s[m].target
    BY <1>2, <1>3, <2>1, <2>2
  <2>4. s[k] = s[m]
    BY <1>2, <2>1, <2>2, <2>3
  <2> QED  BY <2>1, <2>4 DEF IsPlan
<1>5. ASSUME NEW n \in 1..Len(requests)
      PROVE  /\ requests[n].indices \in SUBSET (0..Modulus) /\ IsFiniteSet(requests[n].indices)
             /\ Cardinality(requests[n].indices) \in 1..MaxValuesPerProbe
             /\ requests[n].step \in steps
  <2>1. s[n] \in Slices(steps) /\ Answers(requests[n], s[n])
    BY <1>1
  <2>2. s[n].target.size \in 1..Modulus /\ Modulus \in Nat
    BY <1>2, <1>3, <2>1, TargetFields, LimitsAssumption
  <2>3. requests[n].indices \in SUBSET (0..Modulus)
    BY <2>1, <2>2 DEF Answers
  <2>4. IsFiniteSet(0..Modulus)
    BY <2>2, FS_Interval
  <2>5. IsFiniteSet(requests[n].indices)
    BY <2>3, <2>4, FS_Subset
  <2>6. Cardinality(requests[n].indices) \in 1..MaxValuesPerProbe
    BY <2>1, SomethingIsAsked DEF Answers
  <2>7. requests[n].step \in steps
    BY <1>2, <2>1 DEF Answers
  <2> QED  BY <2>3, <2>5, <2>6, <2>7
<1> QED  BY <1>4, <1>5

\* A plan that was followed to its end is a challenge that is complete.
LEMMA SampledComplete ==
    ASSUME input \in Inputs, requests \in Seq(RequestRecords), IsGeneratable(input),
           requests # << >>, Sampled
    PROVE  /\ IsChallenge(requests)
           /\ \A t \in ToSet(input.targets) :
                 LET own == {r \in ToSet(requests) : <<r.kind, r.tensor>> = TargetKey(t)}
                 IN  /\ Cardinality({r.step : r \in own}) = input.steps
                     /\ \A r \in own : /\ r.indices \subseteq 0..(t.size - 1)
                                       /\ Cardinality(r.indices) = Min({input.values, t.size})
<1>1. PICK steps, s : IsPlan(steps, s) /\ Answered(s) /\ Len(requests) = Len(s)
  BY DEF Sampled
<1>2. /\ \A k, m \in 1..Len(requests) :
            /\ requests[k].kind = requests[m].kind /\ requests[k].step = requests[m].step
            /\ requests[k].tensor = requests[m].tensor
            => k = m
      /\ \A n \in 1..Len(requests) :
            /\ Cardinality(requests[n].indices) \in 1..MaxValuesPerProbe
            /\ requests[n].step \in steps
  BY <1>1, RequestsDiffer
<1>3. ToSet(requests) = {requests[n] : n \in 1..Len(requests)}
  BY DEF ToSet
<1>4. /\ Len(s) \in Nat \ {0} /\ s \in Seq(Slices(steps)) /\ ToSet(s) = Slices(steps)
      /\ \A n \in 1..Len(s) : Answers(requests[n], s[n]) /\ s[n] \in Slices(steps)
      /\ \A k, m \in 1..Len(s) : s[k] = s[m] => k = m
  <2>1. Len(requests) \in Nat \ {0}
    OBVIOUS
  <2> QED  BY <1>1, <2>1 DEF IsPlan, Answered
<1>5. Len(requests) \in 1..MaxProbes
  <2> DEFINE f == [n \in 1..Len(s) |-> s[n]]
             X == Slices(steps)
  <2>1. X = {s[n] : n \in 1..Len(s)}
    BY <1>4 DEF ToSet
  <2>2. IsFiniteSet(X) /\ Cardinality(X) \in Nat /\ Cardinality(X) <= MaxProbes
    BY <1>1, SlicesCounted DEF IsPlan
  <2> HIDE DEF X
  <2>3. f \in Surjection(1..Len(s), X)
    BY <2>1 DEF Surjection
  <2>4. f \in Injection(1..Len(s), X)
    BY <1>4, <2>1 DEF Injection, IsInjective
  <2>5. IsFiniteSet(1..Len(s)) /\ Cardinality(1..Len(s)) = Len(s)
    BY <1>4, FS_Interval
  <2>6. Cardinality(X) = Len(s)
    BY <2>3, <2>4, <2>5, FS_Surjection
  <2>7. MaxProbes \in Nat
    BY LimitsAssumption
  <2> QED  BY <1>1, <1>4, <2>2, <2>6, <2>7
<1>6. IsInjective(requests)
  BY <1>2 DEF IsInjective
<1>7. \A r \in ToSet(requests) : r.step <= input.checkpoint
                                 /\ Cardinality(r.indices) \in 1..MaxValuesPerProbe
  <2>1. steps \subseteq 1..input.checkpoint
    BY <1>1 DEF IsPlan, IsGeneratable, StepsAreValid
  <2>2. \A n \in 1..Len(requests) : requests[n].step <= input.checkpoint
    <3>1. input.checkpoint \in Nat
      BY InputType
    <3>2. \A step \in steps : step <= input.checkpoint
      BY <2>1, <3>1
    <3> QED  BY <1>2, <3>2
  <2> QED  BY <1>2, <1>3, <2>2
<1>8. IsChallenge(requests)
  BY <1>5, <1>6, <1>7 DEF IsChallenge
<1>9. ASSUME NEW t \in ToSet(input.targets)
      PROVE  LET own == {r \in ToSet(requests) : <<r.kind, r.tensor>> = TargetKey(t)}
             IN  /\ Cardinality({r.step : r \in own}) = input.steps
                 /\ \A r \in own : /\ r.indices \subseteq 0..(t.size - 1)
                                   /\ Cardinality(r.indices) = Min({input.values, t.size})
  <2> DEFINE own == {r \in ToSet(requests) : <<r.kind, r.tensor>> = TargetKey(t)}
  <2>1. \A c \in Slices(steps) : c.step \in steps /\ c.target \in ToSet(input.targets)
    BY DEF Slices
  <2>2. \A u \in ToSet(input.targets) : u.kind = t.kind /\ u.tensor = t.tensor => u = t
    BY TargetsType
  <2>3. \A r \in ToSet(requests) : r \in own <=> r.kind = t.kind /\ r.tensor = t.tensor
    BY DEF TargetKey
  <2>4. own \subseteq ToSet(requests)
    OBVIOUS
  <2> HIDE DEF own
  <2>5. ASSUME NEW r \in own
        PROVE  /\ r.indices \subseteq 0..(t.size - 1) /\ r.step \in steps
               /\ Cardinality(r.indices) = Min({input.values, t.size})
    <3>1. PICK n \in 1..Len(requests) : r = requests[n]
      BY <1>3, <2>4
    <3>2. Answers(r, s[n]) /\ s[n] \in Slices(steps)
      BY <1>1, <1>4, <3>1
    <3>3. s[n].target = t
      BY <2>1, <2>2, <2>3, <2>4, <3>2 DEF Answers
    <3> QED  BY <2>1, <3>2, <3>3 DEF Answers
  <2>6. ASSUME NEW step \in steps PROVE \E r \in own : r.step = step
    <3> DEFINE c == [step |-> step, target |-> t]
    <3>1. c \in Slices(steps) /\ c.step = step /\ c.target = t
      BY DEF Slices
    <3> HIDE DEF c
    <3>2. PICK n \in 1..Len(s) : s[n] = c
      <4>1. ToSet(s) = {s[n] : n \in 1..Len(s)}
        BY <1>4 DEF ToSet
      <4> QED  BY <1>4, <3>1, <4>1
    <3>3. Answers(requests[n], c) /\ requests[n] \in ToSet(requests)
      BY <1>1, <1>3, <1>4, <3>2
    <3>4. requests[n] \in own /\ requests[n].step = step
      BY <2>3, <3>1, <3>3 DEF Answers
    <3> QED  BY <3>4
  <2>7. {r.step : r \in own} = steps
    BY <2>5, <2>6
  <2>8. Cardinality({r.step : r \in own}) = input.steps
    BY <1>1, <2>7 DEF IsPlan
  <2> QED  BY <2>5, <2>8 DEF own
<1> QED  BY <1>8, <1>9

\* The challenge is made once every slice was sampled.
LEMMA MakeChallengeChallenge ==
    ASSUME input \in Inputs, ChallengeInv, MakeChallenge
    PROVE  /\ ChallengeInv'
           /\ requests # << >> => stage' = "committing"
           /\ stage' # "done" => requests # << >>
<1>1. /\ stage = "sampling" /\ todo = << >> /\ stage' \in {"committing", "done"}
      /\ IsChallenge(requests) => stage' = "committing"
      /\ ~IsChallenge(requests) => stage' = "done"
      /\ UNCHANGED <<input, todo, selected, requests>>
  BY DEF MakeChallenge, Fail
<1>2. requests \in Seq(RequestRecords) /\ IsGeneratable(input) /\ Sampling
  BY <1>1 DEF ChallengeInv
<1>3. PICK steps, s : IsPlan(steps, s) /\ Answered(s) /\ todo = RestOf(s)
  BY <1>2 DEF Sampling
<1>4. Len(requests) = Len(s)
  <2>1. Len(requests) \in Nat /\ Len(s) \in Nat /\ Len(requests) <= Len(s)
    BY <1>2, <1>3 DEF IsPlan, Answered
  <2>2. DOMAIN todo = 1..(Len(s) - Len(requests)) /\ DOMAIN todo = {}
    BY <1>1, <1>3 DEF RestOf
  <2>3. ~(Len(s) - Len(requests) >= 1)
    <3> SUFFICES ASSUME Len(s) - Len(requests) >= 1 PROVE FALSE
      OBVIOUS
    <3>1. 1 \in 1..(Len(s) - Len(requests))
      BY <2>1
    <3> QED  BY <2>2, <3>1
  <2> QED  BY <2>1, <2>3
<1>5. Sampled
  BY <1>3, <1>4 DEF Sampled
<1>6. requests # << >> => IsChallenge(requests)
  BY <1>2, <1>5, SampledComplete
<1>7. requests = << >> => ~IsChallenge(requests)
  BY LimitsAssumption DEF IsChallenge
<1>8. Sampled' /\ IsGeneratable(input)'
  <2>1. Answered(s)'
    BY <1>1, <1>3, PlanKept DEF Answered
  <2> QED  BY <1>1, <1>2, <1>3, <1>4, <2>1, PlanKept DEF Sampled
<1>9. ChallengeInv'
  BY <1>1, <1>2, <1>8 DEF ChallengeInv
<1> QED  BY <1>1, <1>6, <1>7, <1>9

\* Once the challenge is made it stays.
LEMMA ChallengeKept ==
    ASSUME input \in Inputs, ChallengeInv, UNCHANGED <<input, requests>>,
           \/ stage \in {"committing", "verifying", "comparing", "done"}
              /\ stage' \in {"committing", "verifying", "comparing", "done"}
           \/ stage = "generating" /\ stage' = "done"
           \/ UNCHANGED <<stage, todo, selected>>
    PROVE  ChallengeInv'
<1>1. Sampled' <=> Sampled
  BY PlanKept DEF Sampled, Answered
<1>2. IsGeneratable(input)' <=> IsGeneratable(input)
  BY PlanKept
<1>3. UNCHANGED todo => (Sampling' <=> Sampling)
  BY PlanKept DEF Sampling, Answered, RestOf
<1>4. UNCHANGED todo => Size' = Size /\ SampleCount' = SampleCount
  BY DEF Size, SampleCount
<1> QED  BY <1>1, <1>2, <1>3, <1>4 DEF ChallengeInv

-----------------------------------------------------------------------------
(* Correctness: what is outstanding                                         *)

\* Requests no two of which are of one probe, and each of which asks for something.
IsOutstanding(rs) ==
    /\ rs \in Seq(RequestRecords)
    /\ \A k, m \in 1..Len(rs) :
          rs[k].kind = rs[m].kind /\ rs[k].step = rs[m].step /\ rs[k].tensor = rs[m].tensor => k = m
    /\ \A n \in 1..Len(rs) : IsFiniteSet(rs[n].indices) /\ rs[n].indices # {}
    /\ IsFiniteSet(Requested(rs))

\* The values asked for, by the place of their request.
LEMMA RequestedMembers ==
    ASSUME NEW X, NEW rs \in Seq(X)
    PROVE  \A x : x \in Requested(rs) <=>
                  \E n \in 1..Len(rs) : \E j \in rs[n].indices :
                     x = <<<<rs[n].kind, rs[n].step, rs[n].tensor>>, j>>
<1>1. ToSet(rs) = {rs[n] : n \in 1..Len(rs)}
  BY DEF ToSet
<1>2. \A x : x \in Requested(rs) <=>
             \E r \in ToSet(rs) : x \in {<<r.kind, r.step, r.tensor>>} \X r.indices
  BY DEF Requested
<1>3. \A x, r : x \in {<<r.kind, r.step, r.tensor>>} \X r.indices <=>
                \E j \in r.indices : x = <<<<r.kind, r.step, r.tensor>>, j>>
  OBVIOUS
<1>4. \A x : (\E r \in ToSet(rs) : \E j \in r.indices : x = <<<<r.kind, r.step, r.tensor>>, j>>)
             <=> (\E n \in 1..Len(rs) : \E j \in rs[n].indices :
                     x = <<<<rs[n].kind, rs[n].step, rs[n].tensor>>, j>>)
  BY <1>1
<1> QED  BY <1>2, <1>3, <1>4

\* A challenge asks for finitely many values.
LEMMA ChallengeOutstanding ==
    ASSUME input \in Inputs, requests \in Seq(RequestRecords), IsGeneratable(input), Sampled
    PROVE  IsOutstanding(requests)
<1>1. PICK steps, s : IsPlan(steps, s) /\ Answered(s) /\ Len(requests) = Len(s)
  BY DEF Sampled
<1>2. /\ \A k, m \in 1..Len(requests) :
            /\ requests[k].kind = requests[m].kind /\ requests[k].step = requests[m].step
            /\ requests[k].tensor = requests[m].tensor
            => k = m
      /\ \A n \in 1..Len(requests) :
            /\ requests[n].indices \in SUBSET (0..Modulus) /\ IsFiniteSet(requests[n].indices)
            /\ Cardinality(requests[n].indices) \in 1..MaxValuesPerProbe
  BY <1>1, RequestsDiffer
<1>3. \A n \in 1..Len(requests) : requests[n].indices # {}
  <2>1. Cardinality({}) = 0
    BY FS_EmptySet
  <2>2. \A n \in 1..Len(requests) : Cardinality(requests[n].indices) # 0
    <3>1. \A x \in 1..MaxValuesPerProbe : x # 0
      OBVIOUS
    <3> QED  BY <1>2, <3>1
  <2> QED  BY <2>1, <2>2
<1> DEFINE K == Len(requests)
           keys == {<<requests[n].kind, requests[n].step, requests[n].tensor>> : n \in 1..K}
           f == [n \in 1..K |-> <<requests[n].kind, requests[n].step, requests[n].tensor>>]
<1>4. f \in Surjection(1..K, keys)
  BY DEF Surjection
<1>5. K \in Nat /\ Modulus \in Nat
  BY LimitsAssumption
<1>6. IsFiniteSet(1..K) /\ IsFiniteSet(0..Modulus)
  BY <1>5, FS_Interval
<1>7. IsFiniteSet(keys)
  BY <1>4, <1>6, FS_Surjection
<1>8. IsFiniteSet(keys \X (0..Modulus))
  BY <1>6, <1>7, FS_Product
<1>9. Requested(requests) \in SUBSET (keys \X (0..Modulus))
  <2> SUFFICES ASSUME NEW x \in Requested(requests) PROVE x \in keys \X (0..Modulus)
    OBVIOUS
  <2>1. PICK n \in 1..Len(requests) : \E j \in requests[n].indices :
           x = <<<<requests[n].kind, requests[n].step, requests[n].tensor>>, j>>
    BY RequestedMembers
  <2>2. PICK j \in requests[n].indices :
           x = <<<<requests[n].kind, requests[n].step, requests[n].tensor>>, j>>
    BY <2>1
  <2>3. j \in 0..Modulus /\ <<requests[n].kind, requests[n].step, requests[n].tensor>> \in keys
    BY <1>2
  <2> HIDE DEF keys
  <2> QED  BY <2>2, <2>3
<1>10. IsFiniteSet(Requested(requests))
  BY <1>8, <1>9, FS_Subset
<1> QED  BY <1>2, <1>3, <1>10 DEF IsOutstanding

\* The smallest of the indices is one of them.
LEMMA SmallestIndex ==
    ASSUME NEW S, S \subseteq Nat, S # {}
    PROVE  Min(S) \in S
<1>1. PICK x \in S : \A y \in S : x <= y
  BY LeastElement
<1> QED  BY <1>1 DEF Min

\* Without one of them, the values are one less.
LEMMA OneLess ==
    ASSUME NEW rs, IsOutstanding(rs), NEW rest \in Seq(RequestRecords),
           \A k, m \in 1..Len(rest) :
              /\ rest[k].kind = rest[m].kind /\ rest[k].step = rest[m].step
              /\ rest[k].tensor = rest[m].tensor
              => k = m,
           \A n \in 1..Len(rest) : IsFiniteSet(rest[n].indices) /\ rest[n].indices # {},
           NEW gone \in Requested(rs), Requested(rest) = Requested(rs) \ {gone}
    PROVE  /\ IsOutstanding(rest) /\ Cardinality(Requested(rs)) \in Nat
           /\ Cardinality(Requested(rest)) = Cardinality(Requested(rs)) - 1
<1>1. IsFiniteSet(Requested(rs)) /\ Cardinality(Requested(rs)) \in Nat
  BY FS_CardinalityType DEF IsOutstanding
<1>2. /\ IsFiniteSet(Requested(rs) \ {gone})
      /\ Cardinality(Requested(rs) \ {gone}) = Cardinality(Requested(rs)) - 1
  BY <1>1, FS_RemoveElement
<1>3. IsOutstanding(rest)
  BY <1>2 DEF IsOutstanding
<1> QED  BY <1>1, <1>2, <1>3

\* Comparing one of several values of the first request.
LEMMA FirstIsSmaller ==
    ASSUME NEW rs, IsOutstanding(rs), rs # << >>, Cardinality(rs[1].indices) > 1,
           NEW q \in RequestRecords, q.kind = rs[1].kind, q.step = rs[1].step,
           q.tensor = rs[1].tensor, q.indices = rs[1].indices \ {Min(rs[1].indices)},
           NEW rest \in Seq(RequestRecords), Len(rest) = Len(rs), rest[1] = q,
           \A n \in 1..Len(rs) : n # 1 => rest[n] = rs[n]
    PROVE  /\ IsOutstanding(rest) /\ Cardinality(Requested(rs)) \in Nat
           /\ Cardinality(Requested(rest)) = Cardinality(Requested(rs)) - 1
<1> DEFINE p == rs[1]
           i == Min(p.indices)
           Key(r) == <<r.kind, r.step, r.tensor>>
           gone == <<Key(p), i>>
           N == Len(rs)
<1>1. /\ rs \in Seq(RequestRecords) /\ N \in Nat \ {0} /\ 1 \in 1..N
      /\ \A n \in 1..N : rs[n] \in RequestRecords
  BY DEF IsOutstanding
<1>2. /\ \A k, m \in 1..N : Key(rs[k]) = Key(rs[m]) => k = m
      /\ \A n \in 1..N : IsFiniteSet(rs[n].indices) /\ rs[n].indices # {}
      /\ IsFiniteSet(Requested(rs))
  BY DEF IsOutstanding
<1>3. \A r \in RequestRecords : r.indices \in SUBSET Nat
  BY DEF RequestRecords
<1>4. p \in RequestRecords /\ p.indices \subseteq Nat /\ p.indices # {} /\ IsFiniteSet(p.indices)
  BY <1>1, <1>2, <1>3
<1>5. i \in p.indices
  BY <1>4, SmallestIndex
<1>6. \A x : x \in Requested(rs) <=> \E n \in 1..N : \E j \in rs[n].indices : x = <<Key(rs[n]), j>>
  BY <1>1, RequestedMembers
<1>7. gone = <<Key(p), i>>
  OBVIOUS
<1>12. Key(q) = Key(p) /\ q.indices = p.indices \ {i}
  OBVIOUS
<1>13. Len(rest) = N /\ rest[1] = q /\ \A n \in 1..N : n # 1 => rest[n] = rs[n]
  OBVIOUS
<1>0. Cardinality(p.indices) > 1
  OBVIOUS
<1> HIDE DEF N, p, i, gone, Key
<1>8. gone \in Requested(rs)
  BY <1>1, <1>5, <1>6, <1>7 DEF p
<1>14. \A n \in 1..N : Key(rest[n]) = Key(rs[n])
  BY <1>12, <1>13 DEF p
<1>15. \A k, m \in 1..N : Key(rest[k]) = Key(rest[m]) => k = m
  BY <1>2, <1>14
<1>16. IsFiniteSet(q.indices) /\ q.indices # {}
  <2>1. /\ IsFiniteSet(p.indices \ {i})
        /\ Cardinality(p.indices \ {i}) = Cardinality(p.indices) - 1
    BY <1>4, <1>5, FS_RemoveElement
  <2>2. Cardinality(p.indices) \in Nat /\ Cardinality({}) = 0
    BY <1>4, FS_CardinalityType, FS_EmptySet
  <2>3. Cardinality(p.indices \ {i}) # 0
    BY <1>0, <2>1, <2>2
  <2> QED  BY <1>12, <2>1, <2>2, <2>3
<1>17. \A n \in 1..N : IsFiniteSet(rest[n].indices) /\ rest[n].indices # {}
  BY <1>2, <1>13, <1>16
<1>18. \A x : x \in Requested(rest) <=>
             \E n \in 1..N : \E j \in rest[n].indices : x = <<Key(rest[n]), j>>
  BY <1>13, RequestedMembers DEF Key
<1>19. \A n \in 1..N : \A j : <<Key(rs[n]), j>> = gone <=> n = 1 /\ j = i
  BY <1>1, <1>2, <1>7 DEF p
<1>20. \A n \in 1..N : \A j : j \in rest[n].indices <=> j \in rs[n].indices /\ <<Key(rs[n]), j>> # gone
  <2> TAKE n \in 1..N
  <2>1. CASE n = 1
    BY <1>12, <1>13, <1>19, <2>1 DEF p
  <2>2. CASE n # 1
    BY <1>13, <1>19, <2>2
  <2> QED  BY <2>1, <2>2
<1>21. Requested(rest) = Requested(rs) \ {gone}
  <2>1. ASSUME NEW x \in Requested(rest) PROVE x \in Requested(rs) /\ x # gone
    <3>1. PICK n \in 1..N : \E j \in rest[n].indices : x = <<Key(rest[n]), j>>
      BY <1>18
    <3>2. PICK j \in rest[n].indices : x = <<Key(rs[n]), j>>
      BY <1>14, <3>1
    <3> QED  BY <1>6, <1>20, <3>2
  <2>2. ASSUME NEW x \in Requested(rs), x # gone PROVE x \in Requested(rest)
    <3>1. PICK n \in 1..N : \E j \in rs[n].indices : x = <<Key(rs[n]), j>>
      BY <1>6
    <3>2. PICK j \in rs[n].indices : x = <<Key(rs[n]), j>>
      BY <3>1
    <3>3. j \in rest[n].indices /\ x = <<Key(rest[n]), j>>
      BY <1>14, <1>20, <2>2, <3>2
    <3> QED  BY <1>18, <3>3
  <2> QED  BY <2>1, <2>2
<1>22. \A k, m \in 1..Len(rest) :
          /\ rest[k].kind = rest[m].kind /\ rest[k].step = rest[m].step
          /\ rest[k].tensor = rest[m].tensor
          => k = m
  BY <1>13, <1>15 DEF Key
<1>23. \A n \in 1..Len(rest) : IsFiniteSet(rest[n].indices) /\ rest[n].indices # {}
  BY <1>13, <1>17
<1> QED  BY <1>8, <1>21, <1>22, <1>23, OneLess

\* Comparing the last value of the first request.
LEMMA FirstIsDone ==
    ASSUME NEW rs, IsOutstanding(rs), rs # << >>, ~(Cardinality(rs[1].indices) > 1),
           NEW rest \in Seq(RequestRecords), Len(rest) = Len(rs) - 1,
           \A n \in 1..(Len(rs) - 1) : rest[n] = rs[n + 1]
    PROVE  /\ IsOutstanding(rest) /\ Cardinality(Requested(rs)) \in Nat
           /\ Cardinality(Requested(rest)) = Cardinality(Requested(rs)) - 1
<1> DEFINE p == rs[1]
           i == Min(p.indices)
           Key(r) == <<r.kind, r.step, r.tensor>>
           gone == <<Key(p), i>>
           N == Len(rs)
<1>1. /\ rs \in Seq(RequestRecords) /\ N \in Nat \ {0} /\ 1 \in 1..N
      /\ \A n \in 1..N : rs[n] \in RequestRecords
  BY DEF IsOutstanding
<1>2. /\ \A k, m \in 1..N : Key(rs[k]) = Key(rs[m]) => k = m
      /\ \A n \in 1..N : IsFiniteSet(rs[n].indices) /\ rs[n].indices # {}
      /\ IsFiniteSet(Requested(rs))
  BY DEF IsOutstanding
<1>3. \A r \in RequestRecords : r.indices \in SUBSET Nat
  BY DEF RequestRecords
<1>4. p \in RequestRecords /\ p.indices \subseteq Nat /\ p.indices # {} /\ IsFiniteSet(p.indices)
  BY <1>1, <1>2, <1>3
<1>5. i \in p.indices
  BY <1>4, SmallestIndex
<1>6. \A x : x \in Requested(rs) <=> \E n \in 1..N : \E j \in rs[n].indices : x = <<Key(rs[n]), j>>
  BY <1>1, RequestedMembers
<1>7. gone = <<Key(p), i>>
  OBVIOUS
<1>13. Len(rest) = N - 1 /\ \A n \in 1..(N - 1) : rest[n] = rs[n + 1]
  OBVIOUS
<1>0. ~(Cardinality(p.indices) > 1)
  OBVIOUS
<1> HIDE DEF N, p, i, gone, Key
<1>8. gone \in Requested(rs)
  BY <1>1, <1>5, <1>6, <1>7 DEF p
<1>12. p.indices = {i}
  <2>1. Cardinality(p.indices) \in Nat /\ Cardinality({i}) = 1
    BY <1>4, FS_CardinalityType, FS_Singleton
  <2>2. {i} \in SUBSET p.indices
    BY <1>5
  <2>3. Cardinality({i}) <= Cardinality(p.indices)
    BY <1>4, <2>2, FS_Subset
  <2>4. Cardinality(p.indices) = Cardinality({i})
    BY <1>0, <2>1, <2>3
  <2> QED  BY <1>4, <2>2, <2>4, FS_Subset
<1>14. N - 1 \in Nat /\ \A n \in 1..(N - 1) : n + 1 \in 1..N /\ n + 1 # 1 /\ rest[n] = rs[n + 1]
  BY <1>1, <1>13
<1>15. \A k, m \in 1..(N - 1) : Key(rest[k]) = Key(rest[m]) => k = m
  <2> TAKE k, m \in 1..(N - 1)
  <2> HAVE Key(rest[k]) = Key(rest[m])
  <2>1. k + 1 = m + 1
    BY <1>2, <1>14
  <2> QED  BY <2>1
<1>16. \A n \in 1..(N - 1) : IsFiniteSet(rest[n].indices) /\ rest[n].indices # {}
  BY <1>2, <1>14
<1>17. \A x : x \in Requested(rest) <=>
             \E n \in 1..(N - 1) : \E j \in rest[n].indices : x = <<Key(rest[n]), j>>
  BY <1>13, RequestedMembers DEF Key
<1>18. \A n \in 1..N : \A j : <<Key(rs[n]), j>> = gone <=> n = 1 /\ j = i
  BY <1>1, <1>2, <1>7 DEF p
<1>19. Requested(rest) = Requested(rs) \ {gone}
  <2>1. ASSUME NEW x \in Requested(rest) PROVE x \in Requested(rs) /\ x # gone
    <3>1. PICK n \in 1..(N - 1) : \E j \in rest[n].indices : x = <<Key(rest[n]), j>>
      BY <1>17
    <3>2. PICK j \in rest[n].indices : x = <<Key(rest[n]), j>>
      BY <3>1
    <3>3. n + 1 \in 1..N /\ n + 1 # 1 /\ j \in rs[n + 1].indices /\ x = <<Key(rs[n + 1]), j>>
      BY <1>14, <3>2
    <3> QED  BY <1>6, <1>18, <3>3
  <2>2. ASSUME NEW x \in Requested(rs), x # gone PROVE x \in Requested(rest)
    <3>1. PICK n \in 1..N : \E j \in rs[n].indices : x = <<Key(rs[n]), j>>
      BY <1>6
    <3>2. PICK j \in rs[n].indices : x = <<Key(rs[n]), j>>
      BY <3>1
    <3>3. n # 1
      BY <1>7, <1>12, <2>2, <3>2 DEF p
    <3>4. n - 1 \in 1..(N - 1) /\ (n - 1) + 1 = n
      BY <1>1, <3>3
    <3>5. rest[n - 1] = rs[n]
      BY <1>14, <3>4
    <3> QED  BY <1>17, <3>2, <3>4, <3>5
  <2> QED  BY <2>1, <2>2
<1>20. \A k, m \in 1..Len(rest) :
          /\ rest[k].kind = rest[m].kind /\ rest[k].step = rest[m].step
          /\ rest[k].tensor = rest[m].tensor
          => k = m
  BY <1>13, <1>15 DEF Key
<1>21. \A n \in 1..Len(rest) : IsFiniteSet(rest[n].indices) /\ rest[n].indices # {}
  BY <1>13, <1>16
<1> QED  BY <1>8, <1>19, <1>20, <1>21, OneLess

-----------------------------------------------------------------------------
(* Correctness: the comparison                                              *)

\* A sequence of gates that does not pass has a first one that fails, and the
\* reason is the one of a gate of the sequence.
LEMMA FirstFailureExists ==
    ASSUME NEW g, NEW n \in Nat, DOMAIN g = 1..n, ~AllPass(g)
    PROVE  \E i \in 1..n : FirstFailure(g) = g[i].reason
<1> DEFINE failing  == {i \in 1..n : ~g[i].passes}
           First(i) == ~g[i].passes /\ \A j \in 1..(i - 1) : g[j].passes
<1>1. failing \subseteq Nat /\ failing # {}
  BY DEF AllPass
<1>2. PICK i \in failing : \A j \in failing : i <= j
  BY <1>1, LeastElement
<1>3. \A j \in 1..(i - 1) : j \in 1..n /\ ~(i <= j)
  BY <1>2
<1>4. First(i)
  BY <1>2, <1>3
<1>5. (CHOOSE k \in 1..n : First(k)) \in 1..n
  BY <1>2, <1>4
<1> QED  BY <1>5 DEF FirstFailure

\* verify goes on to the values only when the roots are equal, and no gate of it
\* accepts.
LEMMA VerifyDecides ==
    ASSUME NEW e, NEW o
    PROVE  /\ AllPass(VerifyGates(e, o)) => roots[1] = roots[2]
           /\ ~AllPass(VerifyGates(e, o)) => FirstFailure(VerifyGates(e, o)) # "accepted"
<1> DEFINE g == VerifyGates(e, o)
<1>1. DOMAIN g = 1..7
  BY DEF VerifyGates
<1>2. g[5] = Gate("checkpoint_mismatch", roots[1] = roots[2])
  BY DEF VerifyGates
<1>3. \A i \in 1..7 : g[i].reason # "accepted"
  <2>1. /\ g[1].reason = "identity_mismatch" /\ g[2].reason = "stale_checkpoint"
        /\ g[3].reason = "identity_mismatch" /\ g[4].reason = "stale_checkpoint"
        /\ g[5].reason = "checkpoint_mismatch" /\ g[6].reason = "missing_probe"
        /\ g[7].reason = "unexpected_probe"
    BY DEF VerifyGates, Gate
  <2> HIDE DEF g
  <2> QED  BY <2>1
<1> HIDE DEF g
<1>4. AllPass(g) => roots[1] = roots[2]
  <2> SUFFICES ASSUME AllPass(g) PROVE roots[1] = roots[2]
    OBVIOUS
  <2>1. 5 \in DOMAIN g
    BY <1>1
  <2>2. g[5].passes
    BY <2>1 DEF AllPass
  <2>3. g[5].passes = (roots[1] = roots[2])
    BY <1>2 DEF Gate
  <2> QED  BY <2>2, <2>3, Zenon
<1>5. ~AllPass(g) => FirstFailure(g) # "accepted"
  BY <1>1, <1>3, FirstFailureExists
<1> QED  BY <1>4, <1>5 DEF g

\* Compared values are within their tolerance, and what was compared and what is
\* outstanding is what the challenge asks for.
ComparisonInv ==
    /\ stage # "done" => verdict = "none"
    /\ stage \notin {"comparing", "done"} => checked = 0 /\ compared = {}
    /\ stage \in {"committing", "verifying", "comparing"} => requests # << >>
    /\ stage = "comparing" =>
          /\ roots[1] = roots[2] /\ IsOutstanding(todo) /\ checked \in Nat
          /\ checked + Cardinality(Requested(todo)) = Cardinality(Requested(requests))
    /\ verdict = "accepted" =>
          /\ Len(roots) = 2 /\ roots[1] = roots[2]
          /\ checked = Cardinality(Requested(requests))
    /\ \A c \in compared : IsWithin(c[1], c[2], c[3])

\* A run that is refused accepts nothing.
LEMMA RefusedComparison ==
    ASSUME ComparisonInv, stage' = "done", verdict' # "accepted", UNCHANGED compared
    PROVE  ComparisonInv'
  BY DEF ComparisonInv

\* Before the comparison nothing is compared.
LEMMA NothingCompared ==
    ASSUME ComparisonInv, UNCHANGED <<compared, checked, verdict>>,
           stage \in {"generating", "sampling", "committing", "verifying"},
           stage' \in {"generating", "sampling", "committing", "verifying"},
           stage' \in {"committing", "verifying"} => requests' # << >>
    PROVE  ComparisonInv'
  BY DEF ComparisonInv

\* verify has its gates pass and turns to the values.
LEMMA VerifyComparison ==
    ASSUME input \in Inputs, ChallengeInv, ComparisonInv, NEW e, NEW o, Verify(e, o)
    PROVE  ComparisonInv'
<1>1. /\ stage = "verifying" /\ UNCHANGED <<requests, roots, compared, checked>>
      /\ AllPass(VerifyGates(e, o)) => stage' = "comparing" /\ todo' = requests /\ UNCHANGED verdict
      /\ ~AllPass(VerifyGates(e, o)) => stage' = "done" /\ verdict' = FirstFailure(VerifyGates(e, o))
  BY DEF Verify, Fail
<1>2. CASE ~AllPass(VerifyGates(e, o))
  BY <1>1, <1>2, VerifyDecides, RefusedComparison
<1>3. CASE AllPass(VerifyGates(e, o))
  <2>1. roots[1] = roots[2]
    BY <1>3, VerifyDecides
  <2>2. /\ requests # << >> /\ verdict = "none" /\ checked = 0 /\ compared = {}
    BY <1>1 DEF ComparisonInv
  <2>3. requests \in Seq(RequestRecords) /\ IsGeneratable(input) /\ Sampled
    BY <1>1, <2>2 DEF ChallengeInv
  <2>4. IsOutstanding(requests)
    BY <2>3, ChallengeOutstanding
  <2>5. Cardinality(Requested(requests)) \in Nat
    BY <2>4, FS_CardinalityType DEF IsOutstanding
  <2>6. IsOutstanding(todo)' /\ Cardinality(Requested(todo))' = Cardinality(Requested(requests))
    BY <1>1, <1>3, <2>4
  <2>7. (Cardinality(Requested(requests)))' = Cardinality(Requested(requests))
    BY <1>1
  <2>8. (checked + Cardinality(Requested(todo)) = Cardinality(Requested(requests)))' /\ checked' \in Nat
    BY <1>1, <2>2, <2>5, <2>6, <2>7
  <2> QED  BY <1>1, <1>3, <2>1, <2>2, <2>6, <2>8 DEF ComparisonInv
<1> QED  BY <1>2, <1>3

\* The first place of a sequence is given another value.
LEMMA FirstReplaced ==
    ASSUME NEW X, NEW s \in Seq(X), NEW x \in X
    PROVE  /\ [s EXCEPT ![1] = x] \in Seq(X) /\ Len([s EXCEPT ![1] = x]) = Len(s)
           /\ 1 \in 1..Len(s) => [s EXCEPT ![1] = x][1] = x
           /\ \A n \in 1..Len(s) : n # 1 => [s EXCEPT ![1] = x][n] = s[n]
<1> DEFINE r == [s EXCEPT ![1] = x]
<1>1. DOMAIN s = 1..Len(s) /\ Len(s) \in Nat /\ \A n \in 1..Len(s) : s[n] \in X
  OBVIOUS
<1>2. r = [n \in 1..Len(s) |-> IF n = 1 THEN x ELSE s[n]]
  BY <1>1
<1> HIDE DEF r
<1>3. /\ 1 \in 1..Len(s) => r[1] = x
      /\ \A n \in 1..Len(s) : n # 1 => r[n] = s[n]
  BY <1>2
<1>4. \A n \in 1..Len(s) : (IF n = 1 THEN x ELSE s[n]) \in X
  BY <1>1
<1>5. r \in Seq(X) /\ Len(r) = Len(s)
  BY <1>1, <1>2, <1>4
<1> QED  BY <1>3, <1>5 DEF r

\* What is outstanding after a comparison is one value less.
LEMMA ComparedIsOneLess ==
    ASSUME IsOutstanding(todo), todo # << >>, NEW rest
    PROVE  rest = (IF Cardinality(Pending.indices) > 1
                   THEN [todo EXCEPT ![1].indices = @ \ {Min(@)}] ELSE Tail(todo))
           => /\ IsOutstanding(rest) /\ Cardinality(Requested(todo)) \in Nat
              /\ Cardinality(Requested(rest)) = Cardinality(Requested(todo)) - 1
<1> DEFINE Less == /\ IsOutstanding(rest) /\ Cardinality(Requested(todo)) \in Nat
                   /\ Cardinality(Requested(rest)) = Cardinality(Requested(todo)) - 1
<1>1. /\ todo \in Seq(RequestRecords) /\ Len(todo) \in Nat \ {0} /\ 1 \in 1..Len(todo)
      /\ todo[1] \in RequestRecords /\ Pending = todo[1]
  BY DEF IsOutstanding, Pending
<1>2. ASSUME Cardinality(todo[1].indices) > 1,
             rest = [todo EXCEPT ![1].indices = @ \ {Min(@)}]
      PROVE  Less
  <2> DEFINE q == [todo[1] EXCEPT !.indices = @ \ {Min(@)}]
  <2>1. q \in RequestRecords
    BY <1>1 DEF RequestRecords
  <2>2. /\ q.kind = todo[1].kind /\ q.step = todo[1].step /\ q.tensor = todo[1].tensor
        /\ q.indices = todo[1].indices \ {Min(todo[1].indices)}
    BY <1>1 DEF RequestRecords
  <2>3. rest = [todo EXCEPT ![1] = q]
    BY <1>1, <1>2
  <2> HIDE DEF q
  <2>4. /\ rest \in Seq(RequestRecords) /\ Len(rest) = Len(todo) /\ rest[1] = q
        /\ \A n \in 1..Len(todo) : n # 1 => rest[n] = todo[n]
    <3>1. /\ [todo EXCEPT ![1] = q] \in Seq(RequestRecords)
          /\ Len([todo EXCEPT ![1] = q]) = Len(todo) /\ [todo EXCEPT ![1] = q][1] = q
          /\ \A n \in 1..Len(todo) : n # 1 => [todo EXCEPT ![1] = q][n] = todo[n]
      BY <1>1, <2>1, FirstReplaced
    <3> QED  BY <2>3, <3>1, Zenon
  <2> QED  BY <1>2, <2>1, <2>2, <2>4, FirstIsSmaller
<1>3. ASSUME ~(Cardinality(todo[1].indices) > 1), rest = Tail(todo)
      PROVE  Less
  <2>1. rest = Tail(todo)
    BY <1>3
  <2>2. /\ rest \in Seq(RequestRecords) /\ Len(rest) = Len(todo) - 1
        /\ rest = [n \in 1..(Len(todo) - 1) |-> todo[n + 1]]
    BY <1>1, <2>1, TailOf
  <2>3. \A n \in 1..(Len(todo) - 1) : rest[n] = todo[n + 1]
    BY <2>2
  <2> QED  BY <1>3, <2>2, <2>3, FirstIsDone
<1> HIDE DEF Less
<1> QED  BY <1>1, <1>2, <1>3 DEF Less

\* A pair of values is compared.
LEMMA CompareComparison ==
    ASSUME ComparisonInv, NEW e \in Int, NEW o \in Int, Compare(e, o)
    PROVE  ComparisonInv'
<1>1. /\ stage = "comparing" /\ todo # << >> /\ Accepts(Pending.kind, e, o)
      /\ checked' = checked + 1 /\ compared' = compared \cup {<<Pending.kind, e, o>>}
      /\ UNCHANGED <<stage, requests, roots, verdict>>
  BY DEF Compare
<1>2. todo' = IF Cardinality(Pending.indices) > 1
              THEN [todo EXCEPT ![1].indices = @ \ {Min(@)}] ELSE Tail(todo)
  BY DEF Compare
<1>3. /\ roots[1] = roots[2] /\ IsOutstanding(todo) /\ checked \in Nat /\ requests # << >>
      /\ checked + Cardinality(Requested(todo)) = Cardinality(Requested(requests))
      /\ verdict = "none" /\ \A c \in compared : IsWithin(c[1], c[2], c[3])
  BY <1>1 DEF ComparisonInv
<1>4. Pending.kind \in Kinds
  <2>1. todo \in Seq(RequestRecords) /\ Pending = todo[1] /\ 1 \in 1..Len(todo)
    BY <1>1, <1>3 DEF IsOutstanding, Pending
  <2>2. todo[1] \in RequestRecords
    BY <2>1
  <2>3. \A r \in RequestRecords : r.kind \in Kinds
    BY DEF RequestRecords
  <2> QED  BY <2>1, <2>2, <2>3
<1>5. IsWithin(Pending.kind, e, o)
  BY <1>1, <1>4, AcceptedWithin
<1>6. \A c \in compared' : IsWithin(c[1], c[2], c[3])
  BY <1>1, <1>3, <1>5
<1>7. PICK rest : rest = todo'
  OBVIOUS
<1>8. /\ IsOutstanding(rest) /\ Cardinality(Requested(todo)) \in Nat
      /\ Cardinality(Requested(rest)) = Cardinality(Requested(todo)) - 1
  BY <1>1, <1>2, <1>3, <1>7, ComparedIsOneLess
<1>9. checked' \in Nat /\ checked' + Cardinality(Requested(rest)) = Cardinality(Requested(requests))
  BY <1>1, <1>3, <1>8
<1>10. /\ IsOutstanding(todo') /\ checked' \in Nat
       /\ checked' + Cardinality(Requested(todo')) = Cardinality(Requested(requests'))
  BY <1>1, <1>7, <1>8, <1>9
<1> QED  BY <1>1, <1>3, <1>6, <1>10 DEF ComparisonInv

\* Nothing is outstanding any more.
LEMMA AcceptComparison ==
    ASSUME RootInv, ComparisonInv, Accept
    PROVE  ComparisonInv'
<1>1. /\ stage = "comparing" /\ todo = << >> /\ stage' = "done" /\ verdict' = "accepted"
      /\ UNCHANGED <<requests, roots, compared, checked>>
  BY DEF Accept
<1>2. /\ roots[1] = roots[2] /\ checked \in Nat
      /\ checked + Cardinality(Requested(todo)) = Cardinality(Requested(requests))
      /\ \A c \in compared : IsWithin(c[1], c[2], c[3])
  BY <1>1 DEF ComparisonInv
<1>3. Requested(todo) = {}
  <2>1. ToSet(<< >>) = {}
    BY DEF ToSet
  <2>2. Requested(<< >>) = {}
    BY <2>1 DEF Requested
  <2> QED  BY <1>1, <2>2
<1>4. checked = Cardinality(Requested(requests))
  BY <1>2, <1>3, FS_EmptySet
<1>5. Len(roots) = 2
  BY <1>1 DEF RootInv, TwoRoots
<1>6. (checked = Cardinality(Requested(requests)))'
  BY <1>1, <1>4
<1> QED  BY <1>1, <1>2, <1>5, <1>6 DEF ComparisonInv

-----------------------------------------------------------------------------
\* The invariant of the training correctness check.
CorrectnessInv == input \in Inputs /\ RootInv /\ ChallengeInv /\ ComparisonInv

\* The program starts in the invariant.
LEMMA CorrectnessStarts == Init => CorrectnessInv
<1> SUFFICES ASSUME Init PROVE CorrectnessInv
  OBVIOUS
<1>1. input \in Inputs
  BY DEF Init
<1>2. RootInv
  BY DEF Init, RootInv, NoRoot
<1>3. ChallengeInv
  BY DEF Init, ChallengeInv
<1>4. ComparisonInv
  BY DEF Init, ComparisonInv
<1> QED  BY <1>1, <1>2, <1>3, <1>4 DEF CorrectnessInv

\* Every step of the program keeps the invariant.
LEMMA CorrectnessStep == CorrectnessInv /\ [Next]_vars => CorrectnessInv'
<1> SUFFICES ASSUME CorrectnessInv, [Next]_vars PROVE CorrectnessInv'
  OBVIOUS
<1>0. input \in Inputs /\ RootInv /\ ChallengeInv /\ ComparisonInv
  BY DEF CorrectnessInv
<1>1. ASSUME Generate PROVE CorrectnessInv'
  <2>1. /\ stage = "generating" /\ stage' = "sampling"
        /\ UNCHANGED <<input, level, roots, compared, checked, verdict>>
    BY <1>1 DEF Generate
  <2>2. RootInv'
    BY <1>0, <2>1, RootsKept
  <2>3. ChallengeInv'
    BY <1>0, <1>1, GenerateChallenge
  <2>4. ComparisonInv'
    BY <1>0, <2>1, NothingCompared
  <2> QED  BY <1>0, <2>1, <2>2, <2>3, <2>4 DEF CorrectnessInv
<1>2. ASSUME GenerateRefused PROVE CorrectnessInv'
  <2>1. /\ stage = "generating" /\ stage' = "done" /\ verdict' = "invalid"
        /\ UNCHANGED <<input, requests, level, roots, compared>>
    BY <1>2 DEF GenerateRefused, Fail
  <2>2. RootInv'
    BY <1>0, <2>1, RootsKept
  <2>3. ChallengeInv'
    BY <1>0, <2>1, ChallengeKept
  <2>4. ComparisonInv'
    BY <1>0, <2>1, RefusedComparison
  <2> QED  BY <1>0, <2>1, <2>2, <2>3, <2>4 DEF CorrectnessInv
<1>3. ASSUME Draws PROVE CorrectnessInv'
  <2>1. PICK candidate \in 0..(Modulus - 1) : Draw(candidate)
    BY <1>3 DEF Draws
  <2>2. candidate \in Nat
    BY LimitsAssumption
  <2>3. /\ stage = "sampling" /\ stage' = "sampling"
        /\ UNCHANGED <<input, level, roots, compared, checked, verdict>>
    BY <2>1 DEF Draw, IsSampling
  <2>4. RootInv'
    BY <1>0, <2>3, RootsKept
  <2>5. ChallengeInv'
    BY <1>0, <2>1, <2>2, DrawChallenge
  <2>6. ComparisonInv'
    BY <1>0, <2>3, NothingCompared
  <2> QED  BY <1>0, <2>3, <2>4, <2>5, <2>6 DEF CorrectnessInv
<1>4. ASSUME MakeRequest PROVE CorrectnessInv'
  <2>1. /\ stage = "sampling" /\ stage' = "sampling"
        /\ UNCHANGED <<input, level, roots, compared, checked, verdict>>
    BY <1>4 DEF MakeRequest
  <2>2. RootInv'
    BY <1>0, <2>1, RootsKept
  <2>3. ChallengeInv'
    BY <1>0, <1>4, RequestChallenge
  <2>4. ComparisonInv'
    BY <1>0, <2>1, NothingCompared
  <2> QED  BY <1>0, <2>1, <2>2, <2>3, <2>4 DEF CorrectnessInv
<1>5. ASSUME MakeChallenge PROVE CorrectnessInv'
  <2>1. /\ stage = "sampling"
        /\ \/ stage' = "committing" /\ UNCHANGED verdict
           \/ stage' = "done" /\ verdict' = "invalid"
        /\ UNCHANGED <<input, requests, level, roots, compared, checked>>
    BY <1>5 DEF MakeChallenge, Fail
  <2>2. RootInv'
    BY <1>0, <2>1, RootsKept
  <2>3. ChallengeInv' /\ (stage' # "done" => requests # << >>)
    BY <1>0, <1>5, MakeChallengeChallenge
  <2>4. ComparisonInv'
    BY <1>0, <2>1, <2>3, NothingCompared, RefusedComparison
  <2> QED  BY <1>0, <2>1, <2>2, <2>3, <2>4 DEF CorrectnessInv
<1>6. ASSUME HashLeaves PROVE CorrectnessInv'
  <2>1. /\ stage = "committing" /\ stage' = "committing"
        /\ UNCHANGED <<input, todo, selected, requests, compared, checked, verdict>>
    BY <1>6 DEF HashLeaves
  <2>2. RootInv'
    BY <1>0, <1>6, HashLeavesRoots
  <2>3. ChallengeInv'
    BY <1>0, <2>1, ChallengeKept
  <2>4. requests # << >>
    BY <1>0, <2>1 DEF ComparisonInv
  <2>5. ComparisonInv'
    BY <1>0, <2>1, <2>4, NothingCompared
  <2> QED  BY <1>0, <2>1, <2>2, <2>3, <2>5 DEF CorrectnessInv
<1>7. ASSUME LeavesRefused PROVE CorrectnessInv'
  <2>1. /\ stage = "committing" /\ stage' = "done" /\ verdict' = "invalid"
        /\ UNCHANGED <<input, requests, level, roots, compared>>
    BY <1>7 DEF LeavesRefused, Fail
  <2>2. RootInv'
    BY <1>0, <2>1, RootsKept
  <2>3. ChallengeInv'
    BY <1>0, <2>1, ChallengeKept
  <2>4. ComparisonInv'
    BY <1>0, <2>1, RefusedComparison
  <2> QED  BY <1>0, <2>1, <2>2, <2>3, <2>4 DEF CorrectnessInv
<1>8. ASSUME HashLevel PROVE CorrectnessInv'
  <2>1. /\ stage = "committing" /\ stage' = "committing"
        /\ UNCHANGED <<input, todo, selected, requests, compared, checked, verdict>>
    BY <1>8 DEF HashLevel
  <2>2. RootInv'
    BY <1>0, <1>8, HashLevelRoots
  <2>3. ChallengeInv'
    BY <1>0, <2>1, ChallengeKept
  <2>4. requests # << >>
    BY <1>0, <2>1 DEF ComparisonInv
  <2>5. ComparisonInv'
    BY <1>0, <2>1, <2>4, NothingCompared
  <2> QED  BY <1>0, <2>1, <2>2, <2>3, <2>5 DEF CorrectnessInv
<1>9. ASSUME MakeRoot PROVE CorrectnessInv'
  <2>1. /\ stage = "committing" /\ stage' \in {"committing", "verifying"}
        /\ UNCHANGED <<input, todo, selected, requests, compared, checked, verdict>>
    BY <1>9 DEF MakeRoot
  <2>2. RootInv'
    BY <1>0, <1>9, MakeRootRoots
  <2>3. ChallengeInv'
    BY <1>0, <2>1, ChallengeKept
  <2>4. requests # << >>
    BY <1>0, <2>1 DEF ComparisonInv
  <2>5. ComparisonInv'
    BY <1>0, <2>1, <2>4, NothingCompared
  <2> QED  BY <1>0, <2>1, <2>2, <2>3, <2>5 DEF CorrectnessInv
<1>10. ASSUME NEW e \in Bundles, NEW o \in Bundles, Verify(e, o) PROVE CorrectnessInv'
  <2>1. /\ stage = "verifying" /\ stage' \in {"comparing", "done"}
        /\ UNCHANGED <<input, requests, level, roots>>
    BY <1>10 DEF Verify, Fail
  <2>2. RootInv'
    BY <1>0, <2>1, RootsKept
  <2>3. ChallengeInv'
    BY <1>0, <2>1, ChallengeKept
  <2>4. ComparisonInv'
    BY <1>0, <1>10, VerifyComparison
  <2> QED  BY <1>0, <2>1, <2>2, <2>3, <2>4 DEF CorrectnessInv
<1>11. ASSUME NEW e \in Int, NEW o \in Int, Compare(e, o) PROVE CorrectnessInv'
  <2>1. /\ stage = "comparing" /\ stage' = "comparing"
        /\ UNCHANGED <<input, requests, level, roots>>
    BY <1>11 DEF Compare
  <2>2. RootInv'
    BY <1>0, <2>1, RootsKept
  <2>3. ChallengeInv'
    BY <1>0, <2>1, ChallengeKept
  <2>4. ComparisonInv'
    BY <1>0, <1>11, CompareComparison
  <2> QED  BY <1>0, <2>1, <2>2, <2>3, <2>4 DEF CorrectnessInv
<1>12. ASSUME NEW e, NEW o, CompareFails(e, o) PROVE CorrectnessInv'
  <2>1. /\ stage = "comparing" /\ stage' = "done" /\ verdict' = "numeric_mismatch"
        /\ UNCHANGED <<input, requests, level, roots, compared>>
    BY <1>12 DEF CompareFails, Fail
  <2>2. RootInv'
    BY <1>0, <2>1, RootsKept
  <2>3. ChallengeInv'
    BY <1>0, <2>1, ChallengeKept
  <2>4. ComparisonInv'
    BY <1>0, <2>1, RefusedComparison
  <2> QED  BY <1>0, <2>1, <2>2, <2>3, <2>4 DEF CorrectnessInv
<1>13. ASSUME Accept PROVE CorrectnessInv'
  <2>1. /\ stage = "comparing" /\ stage' = "done"
        /\ UNCHANGED <<input, requests, level, roots>>
    BY <1>13 DEF Accept
  <2>2. RootInv'
    BY <1>0, <2>1, RootsKept
  <2>3. ChallengeInv'
    BY <1>0, <2>1, ChallengeKept
  <2>4. ComparisonInv'
    BY <1>0, <1>13, AcceptComparison
  <2> QED  BY <1>0, <2>1, <2>2, <2>3, <2>4 DEF CorrectnessInv
<1>14. ASSUME UNCHANGED vars PROVE CorrectnessInv'
  <2>1. UNCHANGED <<stage, input, todo, selected, requests, level, roots, compared, checked, verdict>>
    BY <1>14 DEF vars
  <2>2. RootInv'
    BY <1>0, <2>1, RootsKept
  <2>3. ChallengeInv'
    BY <1>0, <2>1, ChallengeKept
  <2>4. ComparisonInv'
    BY <1>0, <2>1 DEF ComparisonInv
  <2> QED  BY <1>0, <2>1, <2>2, <2>3, <2>4 DEF CorrectnessInv
<1>15. \A p \in input.pairs : p[1] \in Int /\ p[2] \in Int
  BY <1>0, InputType
<1> QED
  BY <1>1, <1>2, <1>3, <1>4, <1>5, <1>6, <1>7, <1>8, <1>9, <1>10, <1>11, <1>12, <1>13, <1>14,
     <1>15 DEF Next

\* Every reachable state satisfies the invariant.
LEMMA CorrectnessInvariant == Spec => []CorrectnessInv
  BY CorrectnessStarts, CorrectnessStep, PTL DEF Spec

\* checkpoint_merkle_root gives two checkpoints one root exactly when they hold
\* the same components.
THEOREM RootsAreFaithful == Spec => []RootIdentifiesCheckpoint
<1>1. CorrectnessInv => RootIdentifiesCheckpoint
  BY RootsIdentify DEF CorrectnessInv
<1> QED  BY <1>1, CorrectnessInvariant, PTL

\* _sample_indices favours no index and takes no more than it was asked for.
THEOREM SamplesAreFair == Spec => []SampleIsFair
<1>1. CorrectnessInv => SampleIsFair
  <2> SUFFICES ASSUME CorrectnessInv, stage = "sampling", todo # << >>
               PROVE  /\ Cardinality(selected) <= input.values
                      /\ \A i \in 0..(Size - 1) :
                            Cardinality({c \in 0..(UnbiasedLimit - 1) : c % Size = i})
                              = Modulus \div Size
    BY DEF SampleIsFair
  <2>1. input \in Inputs /\ ChallengeInv
    BY DEF CorrectnessInv
  <2>2. /\ Size \in 1..Modulus /\ SampleCount \in Nat \ {0} /\ SampleCount <= input.values
    BY <2>1, SizeType
  <2>3. selected \subseteq 0..(Size - 1) /\ Cardinality(selected) <= SampleCount
    BY <2>1 DEF ChallengeInv
  <2>4. input.values \in Int /\ Modulus \in Nat
    BY <2>1, InputType
  <2>5. Cardinality(selected) \in Nat
    <3>1. IsFiniteSet(0..(Size - 1))
      BY <2>2, <2>4, FS_Interval
    <3> QED  BY <2>3, <3>1, FS_Subset, FS_CardinalityType
  <2>6. Cardinality(selected) <= input.values
    BY <2>2, <2>3, <2>4, <2>5
  <2>7. \A i \in 0..(Size - 1) :
           Cardinality({c \in 0..(UnbiasedLimit - 1) : c % Size = i}) = Modulus \div Size
    BY <2>2, <2>4, RemaindersAreEven DEF UnbiasedLimit
  <2> QED  BY <2>6, <2>7
<1> QED  BY <1>1, CorrectnessInvariant, PTL

\* What generate_correctness_challenge makes is a challenge its constructor
\* admits, and probes what was asked for.
THEOREM ChallengesAreComplete == Spec => []ChallengeIsComplete
<1>1. CorrectnessInv => ChallengeIsComplete
  <2> SUFFICES ASSUME CorrectnessInv, stage # "sampling", requests # << >>
               PROVE  ChallengeIsComplete
    BY DEF ChallengeIsComplete
  <2>1. input \in Inputs /\ ChallengeInv
    BY DEF CorrectnessInv
  <2>2. requests \in Seq(RequestRecords) /\ IsGeneratable(input) /\ Sampled
    BY <2>1 DEF ChallengeInv
  <2> QED  BY <2>1, <2>2, SampledComplete DEF ChallengeIsComplete
<1> QED  BY <1>1, CorrectnessInvariant, PTL

\* What verify accepts is the reference's checkpoint, with every requested value
\* compared and within the tolerance that accepts rounds.
THEOREM AcceptedIsWithinTolerance == Spec => []AcceptedIsSound
<1>1. CorrectnessInv => AcceptedIsSound
  <2> SUFFICES ASSUME CorrectnessInv, verdict = "accepted"
               PROVE  /\ ToSet(input.observed) = ToSet(input.expected)
                      /\ checked = Cardinality(Requested(requests))
                      /\ \A c \in compared : IsWithin(c[1], c[2], c[3])
    BY DEF AcceptedIsSound
  <2>1. input \in Inputs /\ RootInv /\ ComparisonInv
    BY DEF CorrectnessInv
  <2>2. /\ Len(roots) = 2 /\ roots[1] = roots[2]
        /\ checked = Cardinality(Requested(requests))
        /\ \A c \in compared : IsWithin(c[1], c[2], c[3])
    BY <2>1 DEF ComparisonInv
  <2>3. RootIdentifiesCheckpoint
    BY <2>1, RootsIdentify
  <2>4. ToSet(input.expected) = ToSet(input.observed)
    BY <2>2, <2>3 DEF RootIdentifiesCheckpoint
  <2> QED  BY <2>2, <2>4
<1> QED  BY <1>1, CorrectnessInvariant, PTL

=============================================================================
