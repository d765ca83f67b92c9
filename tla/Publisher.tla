------------------------------ MODULE Publisher ------------------------------
(***************************************************************************)
(* Publisher packaging (publisher.py): package_job checks and hashes the   *)
(* declared files and signs a manifest of them, and write_manifest puts it *)
(* at its destination through a temporary file beside it.                  *)
(*                                                                         *)
(* Several publishers may work at the same time on one directory and one   *)
(* destination, the files may change under them, and a process may end at  *)
(* any point.  A file is a sequence of chunks, hashed one by one; a digest *)
(* is what was hashed.  The destination and its temporary file are names   *)
(* of inodes, as os.replace and open handles make them.                    *)
(***************************************************************************)
EXTENDS Integers, FiniteSets, SequencesExt, Sorting

CONSTANTS
    Publishers,     \* processes
    Paths,          \* normalized relative paths, compared as numbers
    Entrypoint,     \* request.entrypoint
    Requests,       \* what package_job is called with, see IsRequest
    Chunks,         \* what a read may deliver
    Contents,       \* the contents a file may have, sequences of chunks
    MaxInputs,      \* _MAX_INPUTS
    MaxInputBytes,  \* _MAX_INPUT_BYTES, in chunks
    Initially,      \* the contents of the files at first
    MaxChanges,     \* bound: how often a file changes
    Blocks,         \* how many writes a manifest takes
    None            \* no inode, no value

VARIABLES
    files,      \* what each path names: its type and content
    pc,         \* where each publisher is, from "idle" to "done" or "failed"
    request,    \* what it was called with
    records,    \* the input records so far
    size,       \* the size of the current input, from stat
    hashed,     \* the chunks hashed so far of the current file
    manifest,   \* the signed manifest
    handle,     \* the inode it writes to
    blocks,     \* how many blocks of the manifest it has written
    temporary, destination,  \* the inodes those names have
    inodes,     \* the blocks of each inode: who wrote them
    changes,    \* how often a file has changed
    touched,    \* history: the paths that changed since a publisher began
    overlapped  \* history: two publishers had the temporary file open at once

packaging == <<pc, request, records, size, hashed, manifest>>
disk == <<temporary, destination, inodes>>
writing == <<handle, blocks, disk, overlapped>>
surroundings == <<files, changes, touched>>
publisherVars == <<packaging, writing, surroundings>>

Inodes == 1..(Cardinality(Publishers) + 2)
Regular(content) == [type |-> "file", content |-> content]
Irregular == [type |-> "other", content |-> <<>>]  \* no file, a link, a directory
IsRegular(path) == files[path].type = "file"
Bytes(path) == Len(files[path].content)

\* inBlocks: the current block is not negative and the expiry is after it.
\* pinned: the container image names a digest.  valid: the manifest's own
\* constructor and the signer accept the rest.
IsRequest(r) ==
    /\ r.inputs \in Seq(Paths \cup {None})
    /\ {r.inBlocks, r.root, r.pinned, r.valid} \subseteq BOOLEAN

ASSUME RequestsAssumption == \A r \in Requests : IsRequest(r)
ASSUME FilesAssumption ==
    /\ Paths \subseteq Nat /\ Entrypoint \in Paths
    /\ Contents \subseteq Seq(Chunks) /\ Initially \in [Paths -> Seq(Chunks)]
    /\ {MaxInputs, MaxInputBytes, MaxChanges} \subseteq Nat /\ Blocks \in Nat \ {0}
ASSUME PublishersAssumption == IsFiniteSet(Publishers) /\ None \notin Nat

Goto(p, place) == pc' = [pc EXCEPT ![p] = place]

\* The publisher returns, raises or is gone, and with it what it held.
Ends(p, place) ==
    /\ Goto(p, place)
    /\ request' = [request EXCEPT ![p] = None]
    /\ records' = [records EXCEPT ![p] = <<>>]
    /\ size' = [size EXCEPT ![p] = 0]
    /\ hashed' = [hashed EXCEPT ![p] = <<>>]
    /\ manifest' = [manifest EXCEPT ![p] = None]

Fails(p) == Ends(p, "failed") /\ UNCHANGED <<writing, surroundings>>

-----------------------------------------------------------------------------
(* package_job                                                              *)

\* The path in work: the next input that has no record, then the entrypoint.
Position(p) == Len(records[p]) + 1
AtEntrypoint(p) == Position(p) > Len(request[p].inputs)
Current(p) == IF AtEntrypoint(p) THEN Entrypoint ELSE request[p].inputs[Position(p)]

\* The first checks, _safe_root, and _safe_regular_file of the entrypoint.
IsAdmitted(r) ==
    /\ r.inBlocks
    /\ Len(r.inputs) \in 1..MaxInputs
    /\ r.root
    /\ IsRegular(Entrypoint)

Begin(p, r) ==
    /\ pc[p] = "idle"
    /\ IF IsAdmitted(r)
       THEN /\ request' = [request EXCEPT ![p] = r]
            /\ Goto(p, "check")
            /\ UNCHANGED <<records, size, hashed, manifest, writing, surroundings>>
       ELSE Fails(p)

\* _safe_regular_file and the size of an input.  None is a path that is not a
\* normalized relative one.
Checked(p) ==
    /\ Current(p) # None
    /\ IsRegular(Current(p))
    /\ Bytes(Current(p)) <= MaxInputBytes

CheckInput(p) ==
    /\ pc[p] = "check" /\ ~AtEntrypoint(p)
    /\ Checked(p)
    /\ size' = [size EXCEPT ![p] = Bytes(Current(p))]
    /\ Goto(p, "hash")
    /\ UNCHANGED <<request, records, hashed, manifest, writing, surroundings>>

CheckInputFails(p) ==
    /\ pc[p] = "check" /\ ~AtEntrypoint(p)
    /\ ~Checked(p)
    /\ Fails(p)

\* The paths of the records are unique and the image is pinned by a digest;
\* then the entrypoint is hashed.
IsPackageable(r) == IsInjective(r.inputs) /\ r.pinned

InputsDone(p) ==
    /\ pc[p] = "check" /\ AtEntrypoint(p)
    /\ IsPackageable(request[p])
    /\ Goto(p, "hash")
    /\ UNCHANGED <<request, records, size, hashed, manifest, writing, surroundings>>

InputsRefused(p) ==
    /\ pc[p] = "check" /\ AtEntrypoint(p)
    /\ ~IsPackageable(request[p])
    /\ Fails(p)

\* What an open handle on path may deliver: a file that was removed or replaced
\* by a link reads as anything.
Readable(path) == IF IsRegular(path) THEN {files[path].content} ELSE Contents

HasMore(p, content) == Len(hashed[p]) < Len(content)

\* _hash_file: one chunk.
HashChunk(p) ==
    /\ pc[p] = "hash"
    /\ \E content \in Readable(Current(p)) :
           /\ HasMore(p, content)
           /\ hashed' = [hashed EXCEPT ![p] = Append(@, content[Len(@) + 1])]
    /\ UNCHANGED <<pc, request, records, size, manifest, writing, surroundings>>

Record(path, digest, bytes) == [path |-> path, digest |-> digest, size |-> bytes]

\* The end of the file: the record of an input, or the last digest.
HashDone(p) ==
    /\ pc[p] = "hash"
    /\ \E content \in Readable(Current(p)) : ~HasMore(p, content)
    /\ IF AtEntrypoint(p)
       THEN Goto(p, "sign") /\ UNCHANGED <<records, hashed>>
       ELSE /\ records' = [records EXCEPT ![p] = Append(@, Record(Current(p), hashed[p], size[p]))]
            /\ hashed' = [hashed EXCEPT ![p] = <<>>]
            /\ Goto(p, "check")
    /\ UNCHANGED <<request, size, manifest, writing, surroundings>>

\* The file cannot be opened or read.
HashFails(p) ==
    /\ pc[p] = "hash"
    /\ Fails(p)

\* Variant of ByPath: the records in the order of the declaration.
ByPathDeclared(rs) == rs

ByPath(rs) ==
    Sorted(rs, {pair \in ToSet(rs) \X ToSet(rs) : pair[1].path < pair[2].path})

\* JobManifest and sign_message.
Sign(p) ==
    /\ pc[p] = "sign" /\ request[p].valid
    /\ manifest' = [manifest EXCEPT ![p] = [entrypoint |-> hashed[p], inputs |-> ByPath(records[p])]]
    /\ records' = [records EXCEPT ![p] = <<>>]
    /\ size' = [size EXCEPT ![p] = 0]
    /\ hashed' = [hashed EXCEPT ![p] = <<>>]
    /\ Goto(p, "write")
    /\ UNCHANGED <<request, writing, surroundings>>

SignFails(p) ==
    /\ pc[p] = "sign" /\ ~request[p].valid
    /\ Fails(p)

-----------------------------------------------------------------------------
(* write_manifest                                                           *)

Holds(p) == pc[p] = "replace"

\* An inode no name and no publisher has.
FreshInode ==
    CHOOSE i \in Inodes :
        i \notin {temporary, destination} \cup {handle[p] : p \in {q \in Publishers : Holds(q)}}

\* Variant of OpenedInode: the manifest is written in place.
OpenedInodeInPlace == IF destination = None THEN FreshInode ELSE destination

\* The temporary file of an earlier or another publisher is opened again.
OpenedInode == IF temporary = None THEN FreshInode ELSE temporary

\* write_bytes opens the temporary file and cuts it.
OpenTemporary(p) ==
    /\ pc[p] = "write"
    /\ temporary' = OpenedInode
    /\ handle' = [handle EXCEPT ![p] = OpenedInode]
    /\ blocks' = [blocks EXCEPT ![p] = 0]
    /\ inodes' = [inodes EXCEPT ![OpenedInode] = <<>>]
    /\ overlapped' = (overlapped \/ \E q \in Publishers \ {p} : Holds(q))
    /\ Goto(p, "replace")
    /\ UNCHANGED <<request, records, size, hashed, manifest, destination, surroundings>>

\* A write at the handle's own offset; what was cut off before it reads as zeros.
Written(old, at, p) ==
    [n \in 1..(IF at > Len(old) THEN at ELSE Len(old)) |->
        IF n = at THEN p ELSE IF n <= Len(old) THEN old[n] ELSE None]

WriteBlock(p) ==
    /\ pc[p] = "replace" /\ blocks[p] < Blocks
    /\ inodes' = [inodes EXCEPT ![handle[p]] = Written(@, blocks[p] + 1, p)]
    /\ blocks' = [blocks EXCEPT ![p] = @ + 1]
    /\ UNCHANGED <<packaging, handle, temporary, destination, overlapped, surroundings>>

Replace(p) ==
    /\ pc[p] = "replace" /\ blocks[p] = Blocks
    /\ temporary # None
    /\ destination' = temporary
    /\ temporary' = None
    /\ Ends(p, "done")
    /\ UNCHANGED <<handle, blocks, inodes, overlapped, surroundings>>

\* No room, no directory, or the temporary file is gone.
WriteFails(p) ==
    /\ pc[p] \in {"write", "replace"}
    /\ Fails(p)

-----------------------------------------------------------------------------
(* The surroundings                                                         *)

IsActive(p) == pc[p] \notin {"idle", "done", "failed"}

\* The process ends; nothing tidies up.
Crash(p) ==
    /\ IsActive(p)
    /\ Fails(p)

\* Somebody edits, removes or replaces a file while it is being packaged.
Change(path, state) ==
    /\ \E p \in Publishers : IsActive(p)
    /\ changes < MaxChanges
    /\ changes' = changes + 1
    /\ files' = [files EXCEPT ![path] = state]
    /\ touched' = [p \in Publishers |-> IF IsActive(p) THEN touched[p] \cup {path} ELSE {}]
    /\ UNCHANGED <<packaging, writing>>

-----------------------------------------------------------------------------
PublisherInit ==
    /\ files = [path \in Paths |-> Regular(Initially[path])]
    /\ changes = 0
    /\ pc = [p \in Publishers |-> "idle"]
    /\ request = [p \in Publishers |-> None]
    /\ records = [p \in Publishers |-> <<>>]
    /\ size = [p \in Publishers |-> 0]
    /\ hashed = [p \in Publishers |-> <<>>]
    /\ manifest = [p \in Publishers |-> None]
    /\ handle = [p \in Publishers |-> None]
    /\ blocks = [p \in Publishers |-> 0]
    /\ temporary = None /\ destination = None
    /\ inodes = [i \in Inodes |-> <<>>]
    /\ touched = [p \in Publishers |-> {}]
    /\ overlapped = FALSE

Package(p) ==
    \/ \E r \in Requests : Begin(p, r)
    \/ CheckInput(p) \/ CheckInputFails(p) \/ InputsDone(p) \/ InputsRefused(p)
    \/ HashChunk(p) \/ HashDone(p) \/ HashFails(p)
    \/ Sign(p) \/ SignFails(p)

Write(p) == OpenTemporary(p) \/ WriteBlock(p) \/ Replace(p) \/ WriteFails(p)

PublisherNext ==
    \/ \E p \in Publishers : Package(p) \/ Write(p) \/ Crash(p)
    \/ \E path \in Paths, state \in {Regular(c) : c \in Contents} \cup {Irregular} : Change(path, state)

PublisherSpec == PublisherInit /\ [][PublisherNext]_publisherVars

-----------------------------------------------------------------------------
\* A signed manifest lists the declared inputs, each once and in the order of
\* their paths, whatever the order of the declaration; and of every file that
\* did not change since package_job began it holds the digest and the size.
PackageIsFaithful ==
    \A p \in Publishers :
        manifest[p] # None =>
            LET inputs == manifest[p].inputs IN
            /\ {r.path : r \in ToSet(inputs)} = ToSet(request[p].inputs)
            /\ \A m, n \in DOMAIN inputs : m < n => inputs[m].path < inputs[n].path
            /\ \A r \in ToSet(inputs) :
                   r.path \notin touched[p] => r = Record(r.path, files[r.path].content, Bytes(r.path))
            /\ Entrypoint \notin touched[p] => manifest[p].entrypoint = files[Entrypoint].content

\* Unless two publishers had the temporary file open at the same time, the
\* destination holds a whole manifest of one of them or nothing: over write
\* errors, processes that end and temporary files they leave (write_manifest).
DestinationIsWhole ==
    destination # None /\ ~overlapped =>
        \E p \in Publishers :
            inodes[destination] = [n \in 1..Blocks |-> p]
=============================================================================
