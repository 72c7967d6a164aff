------------------------------- MODULE Upload -------------------------------
(***************************************************************************)
(* rfs upload: the pipeline of crates/rfs-common/src/upload.rs (scan, hash *)
(* with bounded workers, encode bottom-up with tree.rs, ask once what is   *)
(* missing, upload that), while other processes change the directory and   *)
(* other clients fill the store.  CasClient shows what upload_blobs        *)
(* promises.  Names are the paths; mode and mtime are left out.            *)
(***************************************************************************)
EXTENDS Integers, Sequences, FiniteSets, FiniteSetsExt

CONSTANTS
    Path,          \* numbers, in the order of their bytes
    RootPath,      \* the upload root
    Parent,        \* path -> path
    Local,         \* path -> what may be there: records with a kind and data
    Options,       \* UploadOptions: workers, inFlight, failUnsupported
    HashChunk,     \* HASH_CHUNK_BYTES
    MaxChanges     \* bound: changes of the directory during an upload

ASSUME PathAssumption ==
    /\ Path \subseteq Nat /\ IsFiniteSet(Path)
    /\ RootPath \in Path /\ Parent \in [Path -> Path]
\* The parents of a path lead to the root.
ASSUME RootedAssumption ==
    \A S \in SUBSET Path :
        S # {} /\ (\A p \in S : Parent[p] \in S) => RootPath \in S
ASSUME LocalAssumption ==
    \A p \in Path : \A n \in Local[p] :
        /\ n.kind \in {"none", "file", "dir", "symlink", "other"}
        /\ n.data \in Seq(Range(n.data))
ASSUME OptionAssumption ==
    /\ \A o \in Options :
          o.workers \in Nat /\ o.inFlight \in Nat /\ o.failUnsupported \in BOOLEAN
    /\ HashChunk \in Nat \ {0} /\ MaxChanges \in Nat

VARIABLES
    fs,            \* path -> what is there
    touched,       \* paths changed since the upload began, oldest first
    remote,        \* digests in the store
    opt, pc,       \* options and control point of the upload
    result, cause, \* its outcome: the root digest of the snapshot, or why not
    todo,          \* entries the scan has listed and not yet looked at
    scanned,       \* path -> what the scan found
    files, dirs,   \* LocalTree: files as found, directories deepest first
    job,           \* path -> its hash task: state and what it has read
    encoded,       \* path -> digest of the encoded directory
    missing        \* digests still to upload

local == <<fs, touched>>
plan == <<todo, scanned, files, dirs>>
vars == <<local, remote, opt, pc, result, cause, plan, job, encoded, missing>>

NoDigest == [t |-> "none"]
FileDigest(data) == [t |-> "file", data |-> data]
DirDigest(nodes) == [t |-> "dir", nodes |-> nodes]

\* A map with one more entry, and the sequence of a set in a strict order.
Put(f, k, v) == [x \in DOMAIN f \cup {k} |-> IF x = k THEN v ELSE f[x]]
InOrder(S, before(_, _)) ==
    CHOOSE s \in [1..Cardinality(S) -> S] :
        \A i, j \in DOMAIN s : i < j => before(s[i], s[j])

\* A path and the directories it is in.
Above[p \in Path] ==
    {p} \cup IF p = RootPath THEN {} ELSE Above[Parent[p]]
\* path_depth
Depth(p) == Cardinality(Above[p] \ {RootPath})
Exists(p) ==
    /\ fs[p].kind # "none"
    /\ \A q \in Above[p] \ {p} : fs[q].kind = "dir"
Children(p) == {c \in Path \ {RootPath} : Parent[c] = p}
Running == {p \in DOMAIN job : job[p].st = "run"}

Init ==
    /\ fs \in {f \in [Path -> UNION {Local[p] : p \in Path}] :
                 \A p \in Path : f[p] \in Local[p]}
    /\ touched = <<>>
    /\ remote = {}
    /\ opt \in Options /\ pc = "idle" /\ result = NoDigest /\ cause = "none"
    /\ todo = <<>> /\ scanned = <<>> /\ files = <<>> /\ dirs = <<>>
    /\ job = <<>> /\ encoded = <<>> /\ missing = {}

-----------------------------------------------------------------------------
\* Another process changes the directory.  An open file keeps its inode, so
\* one that is being read is only written in place: replacing it then is the
\* same as replacing it afterwards.  After the scan files are only opened, which
\* follows links: a link put in place of a file then counts as the file that it
\* leads to, and as a symlink if it leads nowhere.
Change ==
    /\ pc \notin {"idle", "done"} /\ Len(touched) < MaxChanges
    /\ \E p \in Path \ {RootPath} : \E n \in Local[p] \ {fs[p]} :
          /\ p \in Running => n.kind = "file"
          /\ fs' = [fs EXCEPT ![p] = n]
          /\ touched' = Append(touched, p)
    /\ UNCHANGED <<remote, opt, pc, result, cause, plan, job, encoded, missing>>

Fail(c) == pc' = "done" /\ cause' = c /\ UNCHANGED result

\* validate_options
ValidOptions(o) ==
    o.workers > 0 /\ o.inFlight > 0 /\ o.inFlight >= o.workers

\* upload_local_directory: options, then the root.
Start ==
    /\ pc = "idle"
    /\ IF ~ValidOptions(opt) \/ fs[RootPath].kind # "dir"
       THEN Fail("option") /\ UNCHANGED todo
       ELSE pc' = "scan" /\ todo' = <<RootPath>> /\ UNCHANGED <<result, cause>>
    /\ UNCHANGED <<local, remote, opt, scanned, files, dirs, job, encoded, missing>>

\* The sort of scan_directory.  It is also the mutant of DeepestFirst.
ByName(S) == InOrder(S, <)

\* scan_directory: the next entry, and the entries of a directory after it.
Scan ==
    /\ pc = "scan" /\ todo # <<>>
    /\ LET p == Head(todo)
           n == fs[p]
           found == scanned' = Put(scanned, p, n)
       IN \/ /\ ~Exists(p) /\ Fail("filesystem")
             /\ UNCHANGED <<todo, scanned, files>>
          \/ /\ Exists(p) /\ n.kind = "other" /\ opt.failUnsupported
             /\ Fail("unsupported") /\ UNCHANGED <<todo, scanned, files>>
          \/ /\ Exists(p) /\ n.kind = "other" /\ ~opt.failUnsupported
             /\ todo' = Tail(todo)
             /\ UNCHANGED <<pc, result, cause, scanned, files>>
          \/ /\ Exists(p) /\ n.kind # "other" /\ found
             /\ todo' = (IF n.kind = "dir"
                         THEN ByName({c \in Children(p) : Exists(c)})
                         ELSE <<>>) \o Tail(todo)
             /\ files' = IF n.kind = "file" THEN Append(files, p) ELSE files
             /\ UNCHANGED <<pc, result, cause>>
    /\ UNCHANGED <<local, remote, opt, dirs, job, encoded, missing>>

\* The sort of scan_local_directory_with_options.
DeepestFirst(S) ==
    InOrder(S, LAMBDA a, b :
        Depth(a) > Depth(b) \/ (Depth(a) = Depth(b) /\ a < b))

ScanEnds ==
    /\ pc = "scan" /\ todo = <<>>
    /\ dirs' = DeepestFirst({p \in DOMAIN scanned : scanned[p].kind = "dir"})
    /\ pc' = "hash"
    /\ UNCHANGED <<local, remote, opt, result, cause, todo, scanned, files, job,
                   encoded, missing>>

\* An I/O error, a name or target that is not UTF-8, or a timestamp that the
\* encoder refuses.
LocalFails ==
    /\ pc \in {"scan", "encode"}
    /\ Fail("filesystem")
    /\ UNCHANGED <<local, remote, opt, plan, job, encoded, missing>>

-----------------------------------------------------------------------------
\* Mutant of ChunkBytes: the budget is not divided.
ChunkBytesUndivided == IF HashChunk < opt.inFlight THEN HashChunk ELSE opt.inFlight

\* hash_chunk_bytes
ChunkBytes ==
    Min({HashChunk, Max({opt.inFlight \div opt.workers, 1})})

\* hash_files: the next file gets a permit and a task.
Spawn ==
    /\ pc = "hash" /\ Cardinality(DOMAIN job) < Len(files)
    /\ Cardinality(Running) < opt.workers
    /\ job' = Put(job, files[Cardinality(DOMAIN job) + 1],
                  [st |-> "run", got |-> <<>>])
    /\ UNCHANGED <<local, remote, opt, pc, result, cause, plan, encoded, missing>>

\* The size that was read is the size that the scan saw.
Hashed(p) == Len(job[p].got) = Len(scanned[p].data)

\* hash_file: a buffer more, or the end of the file.
Hash(p) ==
    /\ p \in Running
    /\ LET got == job[p].got
           end == Min({Len(got) + ChunkBytes, Len(fs[p].data)})
       IN \/ /\ Exists(p) /\ fs[p].kind = "file" /\ end > Len(got)
             /\ job' = [job EXCEPT ![p].got =
                          got \o SubSeq(fs[p].data, Len(got) + 1, end)]
          \/ /\ Exists(p) /\ fs[p].kind = "file" /\ end <= Len(got)
             /\ job' = [job EXCEPT ![p].st = IF Hashed(p) THEN "ok" ELSE "bad"]
    /\ UNCHANGED <<local, remote, opt, pc, result, cause, plan, encoded, missing>>

\* The file cannot be opened or read.
HashFails(p) ==
    /\ p \in Running
    /\ job' = [job EXCEPT ![p].st = "bad"]
    /\ UNCHANGED <<local, remote, opt, pc, result, cause, plan, encoded, missing>>

\* Every task has been spawned and they are awaited in order: the first that
\* failed is the outcome, while later ones may still run.
Await ==
    /\ pc = "hash" /\ Cardinality(DOMAIN job) = Len(files)
    /\ \/ /\ \A k \in DOMAIN files : job[files[k]].st = "ok"
          /\ pc' = "encode" /\ UNCHANGED <<result, cause>>
       \/ /\ \E k \in DOMAIN files :
                /\ job[files[k]].st = "bad"
                /\ \A j \in 1..(k - 1) : job[files[j]].st = "ok"
          /\ Fail("hash")
    /\ UNCHANGED <<local, remote, opt, plan, job, encoded, missing>>

-----------------------------------------------------------------------------
\* Mutant of Entry: a symbolic link is followed.
EntryFollowed(c) ==
    [name |-> c,
     content |-> CASE scanned[c].kind = "file" -> FileDigest(job[c].got)
                   [] scanned[c].kind = "dir" -> encoded[c]
                   [] OTHER -> FileDigest(scanned[c].data)]

\* encode_directory and DirectoryBuilder::encode on the children that the scan
\* found; the canonical order makes the bytes a function of the set.
Entry(c) ==
    [name |-> c,
     content |-> CASE scanned[c].kind = "file" -> FileDigest(job[c].got)
                   [] scanned[c].kind = "dir" -> encoded[c]
                   [] OTHER -> [t |-> "symlink", data |-> scanned[c].data]]

\* encode_local_tree: the next directory; its subdirectories have digests.
Encode ==
    /\ pc = "encode" /\ Len(dirs) > 0
    /\ LET p == Head(dirs)
           kids == Children(p) \cap DOMAIN scanned
       IN IF \E c \in kids : scanned[c].kind = "dir" /\ c \notin DOMAIN encoded
          THEN Fail("nodigest") /\ UNCHANGED <<dirs, encoded>>
          ELSE /\ encoded' = Put(encoded, p, DirDigest({Entry(c) : c \in kids}))
               /\ dirs' = Tail(dirs)
               /\ UNCHANGED <<pc, result, cause>>
    /\ UNCHANGED <<local, remote, opt, todo, scanned, files, job, missing>>

EncodeEnds ==
    /\ pc = "encode" /\ dirs = <<>>
    /\ pc' = "find"
    /\ UNCHANGED <<local, remote, opt, result, cause, plan, job, encoded, missing>>

-----------------------------------------------------------------------------
\* sources_by_digest: the keys, and the first file of a digest.
Wanted ==
    {FileDigest(job[p].got) : p \in Range(files)} \cup
    {encoded[p] : p \in DOMAIN encoded}
Source(d) ==
    files[Min({k \in DOMAIN files : FileDigest(job[files[k]].got) = d})]

\* Somebody uploads some of the same blobs, in any order.
OtherClient ==
    /\ pc \in {"find", "upload"}
    /\ \E d \in Wanted : remote' = remote \cup {d}
    /\ UNCHANGED <<local, opt, pc, result, cause, plan, job, encoded, missing>>

\* Mutant of ToUpload: a directory in the store is taken for its whole tree.
ToUploadPruned ==
    IF encoded[RootPath] \in remote THEN {} ELSE Wanted \ remote

\* The answer of the store to find_missing_blobs.
ToUpload == Wanted \ remote

\* upload_encoded_tree, up to the upload; the request may fail, or be answered
\* with a digest that was not asked for.
FindMissing ==
    /\ pc = "find"
    /\ \/ Fail("cas") /\ UNCHANGED missing
       \/ Fail("unexpected") /\ UNCHANGED missing
       \/ pc' = "upload" /\ missing' = ToUpload /\ UNCHANGED <<result, cause>>
    /\ UNCHANGED <<local, remote, opt, plan, job, encoded>>

\* upload_blobs: a blob reaches the store, a file if it still is what was
\* hashed or the store has it by now; blobs may come before what they name.
UploadBlob ==
    /\ pc = "upload"
    /\ \E d \in missing :
          /\ d.t = "file" /\ d \notin remote => LET s == Source(d) IN
                Exists(s) /\ fs[s].kind = "file" /\ fs[s].data = d.data
          /\ remote' = remote \cup {d}
          /\ missing' = missing \ {d}
    /\ UNCHANGED <<local, opt, pc, result, cause, plan, job, encoded>>

\* upload_blobs fails: a changed file, or a request that does not get through.
UploadFails ==
    /\ pc = "upload" /\ missing # {}
    /\ Fail("cas")
    /\ UNCHANGED <<local, remote, opt, plan, job, encoded, missing>>

UploadEnds ==
    /\ pc = "upload" /\ missing = {}
    /\ pc' = "done" /\ result' = encoded[RootPath]
    /\ UNCHANGED <<local, remote, opt, cause, plan, job, encoded, missing>>

\* The command has returned and stray hash tasks have ended.
Finished == pc = "done" /\ Running = {} /\ UNCHANGED vars

Step ==
    \/ Start \/ Scan \/ ScanEnds \/ LocalFails \/ Spawn \/ Await
    \/ Encode \/ EncodeEnds \/ FindMissing \/ UploadBlob \/ UploadFails
    \/ UploadEnds \/ \E p \in Path : Hash(p) \/ HashFails(p)

Next == Change \/ OtherClient \/ Step \/ Finished

Spec == Init /\ [][Next]_vars

-----------------------------------------------------------------------------
Kinds == {"file", "dir", "symlink"}

\* Every variable has its type; every file has at most one task, in the order
\* of the scan, and there are no more tasks than permits.  The cause of a
\* failure is never "nodigest", of which encode_directories says "Missing
\* entries indicate a broken pipeline invariant".
TypeOK ==
    /\ \A p \in Path : fs[p] \in Local[p]
    /\ pc \in {"idle", "scan", "hash", "encode", "find", "upload", "done"}
    /\ cause \in {"none", "option", "filesystem", "unsupported", "hash",
                  "cas", "unexpected"}
    /\ \A p \in DOMAIN scanned : scanned[p].kind \in Kinds
    /\ DOMAIN job = {files[k] : k \in 1..Cardinality(DOMAIN job)}
    /\ \A p \in DOMAIN job : job[p].st \in {"run", "ok", "bad"}
    /\ Running # {} => Cardinality(Running) <= opt.workers
    /\ missing # {} => missing \subseteq Wanted

\* Digests reachable from d, and the entries of its directories.
Contents(D) == UNION {{e.content : e \in x.nodes} : x \in {y \in D : y.t = "dir"}}
Reach(d) ==
    LET within[n \in 0..Cardinality(Path)] ==
            IF n = 0 THEN {d} ELSE within[n - 1] \cup Contents(within[n - 1])
    IN within[Cardinality(Path)]
Snapshot == UNION {x.nodes : x \in {y \in Reach(result) : y.t = "dir"}}

\* A digest that the command prints can be mounted: everything that is
\* reachable from it is in the store, whatever part of the tree somebody else
\* or a failed upload had left there before.
RootIsComplete ==
    result # NoDigest => {d \in Reach(result) : d.t # "symlink"} \subseteq remote

\* The snapshot is the directory: a path nobody changed, below directories
\* nobody changed, is in the snapshot exactly if it exists and is of a kind
\* that is kept, with its content, whatever happened to other paths.
SnapshotIsExact ==
    result # NoDigest =>
    \A p \in Path \ {RootPath} :
        LET entries == {e \in Snapshot : e.name = p} IN
        Above[p] \cap Range(touched) = {} =>
           IF Exists(p) /\ fs[p].kind \in Kinds
           THEN \E e \in entries :
                   /\ entries = {e}
                   /\ e.content.t = fs[p].kind
                   /\ fs[p].kind # "dir" => e.content.data = fs[p].data
           ELSE entries = {}

\* The semaphore and the division of the budget together: the read buffers of
\* the tasks that run never exceed in_flight_bytes.
BuffersFit ==
    ValidOptions(opt) => Cardinality(Running) * ChunkBytes <= opt.inFlight
=============================================================================
