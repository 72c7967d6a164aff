------------------------------- MODULE Session -------------------------------
(***************************************************************************)
(* One mounted session (crates/rfs-common/src/session.rs): threads look    *)
(* up, list, stat and read inodes while the namespace is loaded lazily     *)
(* from remote Directory blobs, and the session is closed under them.  The *)
(* cache is the abstract BlobService; the table is SessionStore.           *)
(***************************************************************************)
EXTENDS SessionStore, Functions

CONSTANTS
    Thread,       \* callers of the Session API
    Blob,         \* the blobs of the remote store, sequences of chunks
    Chunk, DigestOf(_),
    Decode(_),    \* decode_directory and decoded_directory_children on a
                  \* blob: a sequence of nodes, or Malformed
    Malformed,
    RootDigest,   \* the mounted root
    Inode,        \* the inode numbers callers use, existing or not
    OpsOf,        \* thread -> the calls it makes
    MaxCalls      \* bound: thread -> calls it makes

VARIABLES
    rows,         \* the inodes table
    life,         \* the lifecycle column of session_metadata
    gate,         \* inode -> who holds its lock: {} or {t}
    poisoned,     \* inodes whose lock holder panicked
    counters,     \* IoCounters
    pc, op, res,  \* thread -> control point, call and answer
    calls,        \* thread -> calls made
    avail, call   \* the blob service

sessVars == <<rows, life, gate, poisoned, counters, pc, op, res, calls>>
vars == <<sessVars, avail, call>>

Digest == {DigestOf(b) : b \in Blob}
Service == INSTANCE BlobService

Kinds == {"file", "directory", "symlink"}
IsNode(n) ==
    /\ n = [name |-> n.name, kind |-> n.kind, mode |-> n.mode,
            mtime |-> n.mtime, content |-> n.content]
    /\ n.name \in Nat
    /\ n.kind \in Kinds
    /\ n.mode \in {NoMode} \cup Nat
    /\ n.kind # "symlink" => n.content \in Digest
IsOp(o) ==
    \/ o.fn = "close"
    \/ /\ o.fn \in {"lookup", "list", "get", "read"}
       /\ o.inode \in Inode
       /\ o.fn = "read" => o.offset \in Nat /\ o.size \in Nat

\* No two blobs of the store have the same SHA-256 digest.
ASSUME BlobAssumption ==
    /\ Blob \subseteq Seq(Chunk)
    /\ RootDigest \in Digest
    /\ \A b, c \in Blob : DigestOf(b) = DigestOf(c) => b = c

\* decode_directory gives a list of nodes; one with an invalid digest is
\* malformed, and a digest may name a blob that cannot be read.
ASSUME DecodeAssumption ==
    \A b \in Blob : Decode(b) # Malformed =>
        /\ Decode(b) \in Seq(Range(Decode(b)))
        /\ \A n \in Range(Decode(b)) : IsNode(n)

ASSUME CallAssumption ==
    /\ IsFiniteSet(Thread)
    /\ MaxCalls \in [Thread -> Nat]
    /\ \A t \in Thread : OpsOf[t] # {} /\ \A o \in OpsOf[t] : IsOp(o)

None == [st |-> "none"]
Err(category) == [st |-> category]
NoCounts == [dirDown |-> 0, dirHits |-> 0, fileDown |-> 0, fileHits |-> 0]

Init ==
    /\ rows = NewTable(RootDigest)
    /\ life = "active"
    /\ gate = [i \in Inode |-> {}]
    /\ poisoned = {}
    /\ counters = NoCounts
    /\ pc = [t \in Thread |-> "idle"]
    /\ op = [t \in Thread |-> CHOOSE o \in OpsOf[t] : TRUE]
    /\ res = [t \in Thread |-> None]
    /\ calls = [t \in Thread |-> 0]
    /\ avail \in SUBSET Digest
    /\ call = [t \in Thread |-> Service!Idle]

-----------------------------------------------------------------------------
Loads(t) == op[t].fn \in {"lookup", "list"}
Goto(t, label) == pc' = [pc EXCEPT ![t] = label]
Answer(t, r) == res' = [res EXCEPT ![t] = r] /\ Goto(t, "idle")

\* The guard of the inode lock goes out of scope.
Unlock(t) == gate' = [gate EXCEPT ![op[t].inode] = {}]
Exit(t, r) == Answer(t, r) /\ Unlock(t)

\* A thread calls one of the operations.
Start(t) ==
    /\ pc[t] = "idle"
    /\ calls[t] < MaxCalls[t]
    /\ calls' = [calls EXCEPT ![t] = @ + 1]
    /\ \E o \in OpsOf[t] :
          /\ op' = [op EXCEPT ![t] = o]
          /\ Goto(t, CASE o.fn = "get" -> "get"
                       [] o.fn = "close" -> "close"
                       [] OTHER -> "lock")
    /\ res' = [res EXCEPT ![t] = None]
    /\ UNCHANGED <<rows, life, gate, poisoned, counters, avail, call>>

\* Mutant of Lock: the lock does not exclude.
LockShared(t) ==
    /\ pc[t] = "lock"
    /\ gate' = [gate EXCEPT ![op[t].inode] = {t}]
    /\ Goto(t, "check")
    /\ UNCHANGED <<rows, life, poisoned, counters, op, res, calls, avail, call>>

\* inode_lock and lock(): a poisoned lock is an error, and is not kept.
Lock(t) ==
    /\ pc[t] = "lock"
    /\ gate[op[t].inode] = {}
    /\ IF op[t].inode \in poisoned
       THEN Answer(t, Err("internal")) /\ UNCHANGED gate
       ELSE /\ gate' = [gate EXCEPT ![op[t].inode] = {t}]
            /\ Goto(t, "check")
            /\ UNCHANGED res
    /\ UNCHANGED <<rows, life, poisoned, counters, op, calls, avail, call>>

\* get_visible_inode and the checks on its row, then the call of the cache.
\* What the row says to do next: an error, the query, or a digest to read.
Checked(t) ==
    LET i == op[t].inode IN
    CASE life # "active" -> Err("precondition")
      [] life = "active" /\ i \notin DOMAIN rows -> Err("noinode")
      [] OTHER ->
           LET r == rows[i] IN
           CASE Loads(t) /\ r.kind # "directory" -> Err("notdir")
             [] Loads(t) /\ r.kind = "directory" /\ r.loaded -> Err("loaded")
             [] ~Loads(t) /\ r.kind = "directory" -> Err("isdir")
             [] ~Loads(t) /\ r.kind = "symlink" -> Err("internal")
             [] OTHER -> [st |-> "read", digest |-> r.content]

Check(t) ==
    /\ pc[t] = "check"
    /\ LET c == Checked(t) IN
       CASE c.st = "read" ->
              /\ call' = [call EXCEPT ![t] = Service!Waiting(c.digest)]
              /\ Service!Request(t)
              /\ Goto(t, "fetch")
              /\ UNCHANGED <<gate, res>>
         [] c.st = "loaded" ->
              /\ Goto(t, "query")
              /\ Unlock(t)
              /\ UNCHANGED <<res, avail, call>>
         [] OTHER -> Exit(t, c) /\ UNCHANGED <<avail, call>>
    /\ UNCHANGED <<rows, life, poisoned, counters, op, calls>>

\* The blob service at work on the call of t.
Serve(t) ==
    /\ \/ Service!Fetch(t)
       \/ \E b \in Blob :
             /\ Service!InProgress(t)
             /\ call' = [call EXCEPT ![t] =
                   Service!Answer(call[t].dig, b, call[t].st = "fetched")]
             /\ Service!Return(t)
       \/ Service!Fail(t)
    /\ UNCHANGED sessVars

\* Mutant of FetchFailed: the lock is kept on the error path.
FetchFailedLocked(t) ==
    /\ pc[t] = "fetch"
    /\ call[t].st = "err"
    /\ Answer(t, Err("internal"))
    /\ UNCHANGED <<rows, life, gate, poisoned, counters, op, calls, avail, call>>

\* read_blob or read_range failed.
FetchFailed(t) ==
    /\ pc[t] = "fetch"
    /\ call[t].st = "err"
    /\ Exit(t, Err("internal"))
    /\ UNCHANGED <<rows, life, poisoned, counters, op, calls, avail, call>>

\* The cache panics under the inode lock.
FetchPanics(t) ==
    /\ pc[t] = "fetch"
    /\ Service!InProgress(t)
    /\ call' = [call EXCEPT ![t] = Service!Idle]
    /\ avail' = avail
    /\ Service!Vanish
    /\ poisoned' = poisoned \cup {op[t].inode}
    /\ Exit(t, None)
    /\ UNCHANGED <<rows, life, counters, op, calls>>

\* Mutant of Refusal: the transaction does not check the lifecycle again.
RefusalStale(t, nodes) ==
    LET i == op[t].inode IN
    IF \/ nodes = Malformed
       \/ ~rows[i].loaded
          /\ (ChildrenOf(rows, i) # {} \/ ~ValidChildren(nodes))
    THEN "internal" ELSE "none"

\* Why the decoded blob cannot be stored as the children of t's inode, if so;
\* the order of the code's checks.
Refusal(t, nodes) ==
    CASE nodes = Malformed -> "internal"
      [] nodes # Malformed /\ life # "active" -> "precondition"
      [] OTHER ->
           LET i == op[t].inode IN
           IF ~rows[i].loaded
              /\ (ChildrenOf(rows, i) # {} \/ ~ValidChildren(nodes))
           THEN "internal" ELSE "none"

\* decode_directory, then get_or_create_remote_dir_children: one transaction.
Materialize(t) ==
    /\ pc[t] = "fetch"
    /\ Loads(t)
    /\ call[t].st = "ok"
    /\ LET i == op[t].inode
           nodes == Decode(call[t].bytes)
       IN IF Refusal(t, nodes) # "none"
          THEN Exit(t, Err(Refusal(t, nodes))) /\ UNCHANGED rows
          ELSE /\ rows' = IF rows[i].loaded THEN rows
                          ELSE WithChildren(rows, i, nodes)
               /\ Goto(t, "record")
               /\ UNCHANGED <<gate, res>>
    /\ UNCHANGED <<life, poisoned, counters, op, calls, avail, call>>

\* record_directory_read, and the lock is released.
Record(t) ==
    /\ pc[t] = "record"
    /\ counters' = IF call[t].downloaded
                   THEN [counters EXCEPT !.dirDown = @ + 1]
                   ELSE [counters EXCEPT !.dirHits = @ + 1]
    /\ Unlock(t)
    /\ Goto(t, "query")
    /\ UNCHANGED <<rows, life, poisoned, op, res, calls, avail, call>>

\* store.child or store.get_directory_children, outside the inode lock.
Query(t) ==
    /\ pc[t] = "query"
    /\ LET i == op[t].inode IN
       Answer(t,
         IF life # "active" THEN Err("precondition")
         ELSE IF op[t].fn = "list"
              THEN [st |-> "list",
                    nodes |-> [k \in 1..Cardinality(ChildrenOf(rows, i)) |->
                                 Project(rows, ListChildren(rows, i)[k])]]
         ELSE IF NamedChild(rows, i, op[t].name) = {} THEN Err("notfound")
         ELSE [st |-> "node",
               node |-> Project(rows, CHOOSE c \in
                                  NamedChild(rows, i, op[t].name) : TRUE)])
    /\ UNCHANGED <<rows, life, gate, poisoned, counters, op, calls, avail, call>>

\* get_inode
GetInode(t) ==
    /\ pc[t] = "get"
    /\ Answer(t, IF life # "active" THEN Err("precondition")
                 ELSE IF op[t].inode \notin DOMAIN rows THEN Err("noinode")
                 ELSE [st |-> "node", node |-> Project(rows, op[t].inode)])
    /\ UNCHANGED <<rows, life, gate, poisoned, counters, op, calls, avail, call>>

\* Mutant of ReadFileRange: read instead of read_at.
ReadFileStart(bytes, offset, size) ==
    LET available == IF offset < Len(bytes) THEN Len(bytes) - offset ELSE 0
    IN SubSeq(bytes, 1, IF available < size THEN available ELSE size)

\* read_file_range: at most `size` bytes from `offset`, none beyond the end.
ReadFileRange(bytes, offset, size) ==
    LET available == IF offset < Len(bytes) THEN Len(bytes) - offset ELSE 0
        count == IF available < size THEN available ELSE size
    IN SubSeq(bytes, offset + 1, offset + count)

\* The end of read_range: record_file_read, the lock is released.
ReadRange(t) ==
    /\ pc[t] = "fetch"
    /\ ~Loads(t)
    /\ call[t].st = "ok"
    /\ counters' = IF call[t].downloaded
                   THEN [counters EXCEPT !.fileDown = @ + 1]
                   ELSE [counters EXCEPT !.fileHits = @ + 1]
    /\ Exit(t, [st |-> "bytes",
                bytes |-> ReadFileRange(call[t].bytes, op[t].offset, op[t].size)])
    /\ UNCHANGED <<rows, life, poisoned, op, calls, avail, call>>

\* close: the active-to-closed transaction.
Close(t) ==
    /\ pc[t] = "close"
    /\ IF life = "active"
       THEN life' = "closed" /\ Answer(t, [st |-> "closed"])
       ELSE Answer(t, Err("precondition")) /\ UNCHANGED life
    /\ UNCHANGED <<rows, gate, poisoned, counters, op, calls, avail, call>>

\* A statement or a commit fails; the transaction is rolled back.
StoreFails(t) ==
    /\ \/ pc[t] \in {"query", "get", "close"} /\ UNCHANGED gate
       \/ pc[t] = "check" /\ Unlock(t)
       \/ pc[t] = "fetch" /\ Loads(t) /\ call[t].st = "ok" /\ Unlock(t)
    /\ Answer(t, Err("internal"))
    /\ UNCHANGED <<rows, life, poisoned, counters, op, calls, avail, call>>

Step(t) ==
    \/ Lock(t) \/ Check(t) \/ Serve(t) \/ FetchFailed(t) \/ FetchPanics(t)
    \/ Materialize(t) \/ Record(t) \/ Query(t) \/ GetInode(t) \/ ReadRange(t)
    \/ Close(t) \/ StoreFails(t)

Next == \E t \in Thread : Start(t) \/ Step(t)

Spec == Init /\ [][Next]_vars

\* A thread that can run runs, and the cache answers (ReadsReturn of
\* CachedBlobStore).
FairSpec == Spec /\ \A t \in Thread : WF_vars(Step(t))
-----------------------------------------------------------------------------
\* Every variable has its type; a blob is only asked for by a digest.
TypeOK ==
    /\ \A i \in DOMAIN rows :
          /\ rows[i].kind \in Kinds
          /\ rows[i].loaded \in BOOLEAN
          /\ rows[i].mode \in {NoMode} \cup 0..MaxMode
    /\ life \in {"active", "closed"}
    /\ gate \in [Inode -> SUBSET Thread]
    /\ poisoned \subseteq Inode
    /\ counters \in [DOMAIN NoCounts -> Nat]
    /\ pc \in [Thread -> {"idle", "lock", "check", "fetch", "record", "query",
                          "get", "close"}]
    /\ \A t \in Thread : op[t] \in OpsOf[t]
    /\ avail \subseteq Digest
    /\ \A t \in Thread : call[t].st # "idle" => call[t].dig \in Digest

\* The blob a digest names, decoded; content addressing makes it unique.
Remote(digest) == Decode(CHOOSE b \in Blob : DigestOf(b) = digest)
NodeOf(row) == [name |-> row.name, kind |-> row.kind, mode |-> row.mode,
                mtime |-> row.mtime, content |-> row.content]

\* get_or_create_remote_dir_children is all or nothing: a loaded directory has
\* exactly the children of its remote Directory, an unloaded one has none, so
\* no interleaving or failure leaves a partly loaded directory behind.
LoadedComplete ==
    \A i \in DOMAIN rows :
        IF rows[i].kind = "directory" /\ rows[i].loaded
        THEN /\ Remote(rows[i].content) # Malformed
             /\ {NodeOf(rows[c]) : c \in ChildrenOf(rows, i)}
                    = Range(Remote(rows[i].content))
             /\ Cardinality(ChildrenOf(rows, i)) = Len(Remote(rows[i].content))
        ELSE ChildrenOf(rows, i) = {}

\* An inode number, once handed to the kernel, keeps its parent, name, kind
\* and content for the life of the session, and a directory stays loaded.
InodesAreStable ==
    [][\A i \in DOMAIN rows :
          /\ i \in DOMAIN rows'
          /\ rows'[i] = [rows[i] EXCEPT !.loaded = rows'[i].loaded]
          /\ rows[i].loaded => rows'[i].loaded]_rows

\* What a lookup or a listing answered is what the remote Directory of the
\* parent says: a name is reported missing only if it is not in there, the
\* answer carries that entry under the identity every other answer gives it,
\* and a listing has every entry once, in basename order.
AnswersMatchTree ==
    \A t \in {u \in Thread : pc[u] = "idle" /\ Loads(u)} :
        LET i == op[t].inode
            entries == Range(Remote(rows[i].content))
            entry(n) == [name |-> n.name, kind |-> n.kind,
                         mode |-> rows[n.inode].mode,
                         mtime |-> rows[n.inode].mtime,
                         content |-> rows[n.inode].content]
        IN CASE res[t].st = "notfound" ->
                  ~\E e \in entries : e.name = op[t].name
             [] res[t].st = "node" ->
                  /\ res[t].node.name = op[t].name
                  /\ res[t].node = Project(rows, res[t].node.inode)
                  /\ res[t].node.parent = i
                  /\ entry(res[t].node) \in entries
             [] res[t].st = "list" ->
                  LET ns == res[t].nodes IN
                  /\ {entry(ns[k]) : k \in DOMAIN ns} = entries
                  /\ \A j, k \in DOMAIN ns : j < k => ns[j].name < ns[k].name
             [] OTHER -> TRUE

\* close is final: a load that was waiting for its blob when the session was
\* closed stores nothing, and nothing reopens the session.
NothingAfterClose ==
    [][life = "closed" => UNCHANGED <<rows, life>>]_<<rows, life>>

\* The inode lock makes loads of a directory happen once: the directory
\* counters together count the loaded directories, one each, but for those
\* whose loader has yet to record them.
CountersMatchLoads ==
    counters.dirDown + counters.dirHits
        + Cardinality({t \in Thread : pc[t] = "record"})
      = Cardinality({i \in DOMAIN rows : rows[i].loaded})

\* A read answers the bytes of the file's digest at the offset, all that were
\* asked for unless the file ends before, and never a byte more.
ReadIsFaithful ==
    \A t \in Thread : res[t].st = "bytes" =>
        LET b == CHOOSE x \in Blob : DigestOf(x) = rows[op[t].inode].content
            wanted == {p \in DOMAIN b : op[t].offset < p
                                        /\ p <= op[t].offset + op[t].size}
        IN /\ Len(res[t].bytes) = Cardinality(wanted)
           /\ \A p \in wanted : res[t].bytes[p - op[t].offset] = b[p]

\* Every call returns, whatever fails or panics while an inode lock is held.
CallsReturn == \A t \in Thread : pc[t] # "idle" ~> pc[t] = "idle"
=============================================================================
